---- MODULE Spec2Model ----
(***************************************************************************)
(* A model of the external-service orchestration layer of xhs-recipe:      *)
(*   - the Tool Client        (createXhsClient: connection, cache, getPost) *)
(*   - the Request Coordinator (the ipcMain handlers of main.js)            *)
(*   - the Process Launcher    (createMcpLauncher)                          *)
(*   - the Completion Client   (createOpenAIClient)                         *)
(*                                                                         *)
(* Scheduling model: one JavaScript event loop.  An action is one          *)
(* macrotask (an IPC call arriving, an I/O completion, a timer) together   *)
(* with every microtask continuation it triggers, up to the next await of  *)
(* real I/O.  Awaits that only resolve already-available values            *)
(* (configStore.getResolvedConfig, a disconnect with nothing to close)     *)
(* are therefore folded into the action that reaches them.                 *)
(***************************************************************************)
EXTENDS Integers, Sequences, FiniteSets, TLC

-----------------------------------------------------------------------------
(* Bounds of the model *)

\* number of fetchPost / generateRecipe invocations in one run
MaxOps == 2
\* number of connect attempts the Tool Client may start in one run
MaxConnects == 2
\* number of faults the environment may inject (failed connect, tool error, ...)
MaxFaults == 1
\* last value of the clock
MaxNow == 2
\* number of getPost calls of the cache-only specification
MaxCacheOps == 63
\* number of clicks on Fetch or Generate in one run of the renderer
MaxClicks == 3
\* number of confirmed clicks on Clear in one run of the renderer
MaxClears == 2
\* last value of connectSeq: no disconnect() is modelled beyond it
MaxSeq == 3
\* number of images in one generateRecipe request
MaxImages == 1
\* number of images in one generateRecipe request of GenerateSpec
MaxGenImages == 2

(* Program constants *)

\* src/unnamed/part_001:5 is 30 minutes, which is two clock ticks of the model
CACHE_TTL_MS == 2
CACHE_MAX_ENTRIES == 60

-----------------------------------------------------------------------------
(* Environment: URLs, request ids, configuration, tool server *)

\* "s" is a short share link without token, "f" the full URL with xsec_token
Urls == {"s", "f"}
\* what following redirects yields (resolveFinalUrl, when the request succeeds)
Redirect(u) == "f"
\* whether extractFeedIdAndToken finds both a feed id and a token in the URL
HasToken(u) == u = "f"

\* the request id a caller may supply; Uuid(i) is what crypto.randomUUID() gives
CallerIds == {<<"caller", 1>>}
Uuid(i) == <<"uuid", i>>
NoRid == <<"none", 0>>

\* cfg.mcp.toolName (ConfigSchema default "") and the connection key of the config
CfgToolName == ""
WantKey == "http:url"
\* the names listTools() reports, in the server's order
ServerTools == <<"get_feed_detail", "get_content">>

Ops == 1..MaxOps

VARIABLES
  xhs,               \* the Tool Client's closure state (createXhsClient)
  inFlightRequests,  \* main.js: requestId -> [kind, ctl], ctl the operation owning the controller
  ops,               \* the fetchPost / generateRecipe invocations
  now,               \* Date.now(), in ticks
  faults,            \* faults injected so far
  hist,              \* history of the coordinator calls, read only by the properties
  ret,               \* what the last coordinator call returned, read only by the properties
  mcp,               \* the Process Launcher's closure state (createMcpLauncher) and its environment
  oai,               \* one generateRecipeMarkdown call of the Completion Client
  pure,              \* one application of a pure function: its name, argument and result
  tc,                \* the tool-call phase of one getPost, call by call
  rn                 \* the renderer: its state object, the UI fields and its click handlers

vars == <<xhs, inFlightRequests, ops, now, faults, hist, ret, mcp, oai, pure, tc, rn>>
coreVars == <<xhs, inFlightRequests, ops, now, faults, hist, ret>>

NoConn == [id |-> 0, by |-> 0, seq |-> 0]
NoRet == [call |-> "", aborted |-> 0, were |-> {}]
NoAttempt == [id |-> 0, seq |-> 0, by |-> 0, killKind |-> "none", killOp |-> 0]

-----------------------------------------------------------------------------
(* Post cache: a Map in insertion order *)

CacheIndex(c, u) ==
  IF \E k \in 1..Len(c) : c[k].key = u
  THEN CHOOSE k \in 1..Len(c) : c[k].key = u
  ELSE 0

\* a lookup that also takes an entry whose age is exactly the TTL
CacheHitInclusive(c, u, t) ==
  LET k == CacheIndex(c, u) IN k # 0 /\ t - c[k].ts <= CACHE_TTL_MS

\* getPost lines 316-317: the entry for sourceUrl exists and is younger than the TTL
CacheHit(c, u, t) ==
  LET k == CacheIndex(c, u) IN k # 0 /\ t - c[k].ts < CACHE_TTL_MS

\* Map.set: an existing key keeps its position, a new key goes last
MapSet(c, e) ==
  LET k == CacheIndex(c, e.key) IN
  IF k = 0 THEN Append(c, e) ELSE [c EXCEPT ![k] = e]

IsLive(e, t) == t - e.ts < CACHE_TTL_MS

\* a pruneCache without the size loop
pruneExpiredOnly(c, t) == SelectSeq(c, LAMBDA e : IsLive(e, t))

\* lines 233-242: drop the expired entries, then the first keys of the Map while
\* there are more than CACHE_MAX_ENTRIES
pruneCache(c, t) ==
  LET live == SelectSeq(c, LAMBDA e : IsLive(e, t)) IN
  IF Len(live) > CACHE_MAX_ENTRIES
  THEN SubSeq(live, Len(live) - CACHE_MAX_ENTRIES + 1, Len(live))
  ELSE live

\* getPost line 419: the key under which a fetched post is stored
CacheKey(sourceUrl, finalUrl) == sourceUrl

-----------------------------------------------------------------------------
(* Tool Client: connection management *)

\* disconnect(reason), its synchronous part; the awaited close changes no state
disconnect(x, kind, op) ==
  [x EXCEPT !.connectSeq = @ + 1,
            !.connected = NoConn,
            !.detectedToolName = "",
            !.connectedKey = "",
            !.connecting = IF @.id # 0 /\ @.killKind = "none"
                           THEN [@ EXCEPT !.killKind = kind, !.killOp = op]
                           ELSE @]

\* a resetSession that forgets to clear the cache
resetSessionKeepsCache(x) ==
  disconnect([x EXCEPT !.detectedToolName = "", !.opCounter = 0], "clear", 0)

\* resetSession()
resetSession(x) ==
  disconnect([x EXCEPT !.cache = <<>>, !.detectedToolName = "", !.opCounter = 0],
             "clear", 0)

InitOp ==
  [kind |-> "none", rid |-> NoRid, url |-> "", final |-> "", hpc |-> "none",
   gpc |-> "none", stage |-> 0, client |-> 0, tool |-> "", aborted |-> FALSE,
   outcome |-> "none", err |-> "", killKind |-> "none", killOp |-> 0,
   fresh |-> FALSE, didIO |-> FALSE, got |-> 0, after |-> 0,
   imgs |-> <<>>, idx |-> 0, attached |-> 0, failures |-> <<>>,
   dl |-> <<>>, f |-> "", dlio |-> FALSE,
   g5 |-> FALSE, cls |-> "", fb |-> 0, model |-> ""]

\* what an invocation keeps once both its handler and its getPost have ended
Ended(o) ==
  IF o.hpc = "done" /\ o.gpc \in {"done", "none"}
  THEN [o EXCEPT !.rid = NoRid, !.url = "", !.final = "", !.stage = 0, !.client = 0,
                 !.tool = ""]
  ELSE o

\* getPost's promise settles with res; a handler still racing takes it as its outcome
\* (fetchPost lines 454-465), a handler that already ended drops it
Settle(o, res, err) ==
  Ended(IF o.hpc = "racing"
        THEN [o EXCEPT !.gpc = "done", !.hpc = "done", !.outcome = res, !.err = err]
        ELSE [o EXCEPT !.gpc = "done"])

\* getPost lines 325-348: argument extraction and the tool call being issued
StartCall(o) ==
  IF o.tool = "get_feed_detail" /\ ~HasToken(o.final)
  THEN Settle(o, "error", "extract")
  ELSE [o EXCEPT !.gpc = "call"]

\* what getPost does once getClient() has returned client c, dtn being detectedToolName
WithClient(o, c, dtn) ==
  LET oc == [o EXCEPT !.client = c] IN
  CASE o.stage = 1 ->
         IF CfgToolName # "" THEN StartCall([oc EXCEPT !.tool = CfgToolName])
         ELSE IF dtn # "" THEN StartCall([oc EXCEPT !.tool = dtn])
         ELSE [oc EXCEPT !.gpc = "detect"]
    [] o.stage = 4 -> [oc EXCEPT !.gpc = "detect"]
    [] OTHER -> [oc EXCEPT !.gpc = "call"]

\* what getPost does when getClient() throws
NoClient(o, err, kk, ko) ==
  LET ok == [o EXCEPT !.killKind = kk, !.killOp = ko] IN
  IF o.stage \in {1, 2} THEN Settle(ok, "error", err)
  ELSE Settle(ok, "error", "toolError")

\* a getClient() that starts an attempt of its own whatever connecting holds
getClientAlwaysNew(x, o, i) ==
  IF x.connected.id # 0 /\ x.connectedKey = WantKey
  THEN [x |-> x, o |-> WithClient(o, x.connected.id, x.detectedToolName)]
  ELSE [x |-> [x EXCEPT !.connecting = [id |-> x.connCount + 1, seq |-> x.connectSeq,
                                         by |-> i, killKind |-> "none", killOp |-> 0],
                        !.connCount = @ + 1],
        o |-> [o EXCEPT !.gpc = "connect"]]

\* getClient() called by operation i
getClient(x, o, i) ==
  IF x.connected.id # 0 /\ x.connectedKey = WantKey
  THEN [x |-> x, o |-> WithClient(o, x.connected.id, x.detectedToolName)]
  ELSE IF x.connecting.id = 0
  THEN [x |-> [x EXCEPT !.connecting = [id |-> x.connCount + 1, seq |-> x.connectSeq,
                                         by |-> i, killKind |-> "none", killOp |-> 0],
                        !.connCount = @ + 1],
        o |-> [o EXCEPT !.gpc = "connect"]]
  ELSE [x |-> x, o |-> [o EXCEPT !.gpc = "connect"]]

\* getClient() can be modelled: it needs no attempt beyond the bound
CanGetClient(x) ==
  x.connected.id # 0 \/ x.connecting.id # 0 \/ x.connCount < MaxConnects

\* inFlightRequests.set(requestId, { kind, controller })
Register(t, rid, kind, i) ==
  [id \in DOMAIN t \cup {rid} |-> IF id = rid THEN [kind |-> kind, ctl |-> i] ELSE t[id]]

\* a cleanup that runs only after a success
FinallyDeleteOnSuccess(t, done) ==
  [id \in DOMAIN t \ {d.rid : d \in {e \in done : e.outcome = "ok"}} |-> t[id]]

\* the finally of both handlers: inFlightRequests.delete(requestId), for every
\* handler in done, a set of [rid, outcome]
FinallyDelete(t, done) ==
  [id \in DOMAIN t \ {d.rid : d \in done} |-> t[id]]

\* the handlers that ended in the step from os to ns
JustEnded(os, ns) ==
  {[rid |-> os[j].rid, outcome |-> ns[j].outcome] :
     j \in {k \in Ops : os[k].hpc = "racing" /\ ns[k].hpc = "done"}}

-----------------------------------------------------------------------------
(* Tool Client: tool-name detection (detectToolName, detectUrlToolFallbackName) *)

Preferred == <<"get_feed_detail", "get_content", "get_post", "get_note">>
UrlPreferred == <<"get_content", "get_post", "get_note">>

Names(tools) == {tools[k] : k \in 1..Len(tools)}

FirstOf(pref, names) ==
  IF \E k \in 1..Len(pref) : pref[k] \in names
  THEN pref[CHOOSE k \in 1..Len(pref) :
              pref[k] \in names /\ \A m \in 1..(k - 1) : pref[m] \notin names]
  ELSE ""

\* "" stands for the thrown "Could not auto-detect" error
detectToolName(tools) == FirstOf(Preferred, Names(tools))

\* "" stands for null
detectUrlToolFallbackName(tools) == FirstOf(UrlPreferred, Names(tools))

-----------------------------------------------------------------------------
(* Tool Client: getPost(sourceUrl), one action per await of real I/O *)

\* lines 410-421: normalize, cache.set(sourceUrl, { ts, post }), pruneCache()
Store(x, o, i) ==
  [x EXCEPT !.cache =
     pruneCache(MapSet(@, [key |-> CacheKey(o.url, o.final), ts |-> now,
                           src |-> o.url, final |-> o.final, by |-> i]), now)]

\* the coordinator's table after the handlers that ended in this step ran their finally
TableAfter(ns) == FinallyDelete(inFlightRequests, JustEnded(ops, ns))

\* ipcMain.handle("xhs:fetchPost") up to getPost's first await (lines 440-454, 312-319)
FetchPost(i, u, rid) ==
  /\ ops[i].kind = "none"
  /\ \A j \in 1..(i - 1) : ops[j].kind # "none"
  /\ LET n  == xhs.opCounter + 1
         c1 == IF n % 12 = 0 THEN pruneCache(xhs.cache, now) ELSE xhs.cache
         k  == CacheIndex(c1, u)
         o0 == [InitOp EXCEPT !.kind = "fetch", !.rid = rid, !.url = u, !.hpc = "racing",
                              !.after = hist.lastCancelled[u],
                              !.fresh = \E m \in 1..Len(xhs.cache) :
                                          /\ xhs.cache[m].key = u
                                          /\ now - xhs.cache[m].ts < CACHE_TTL_MS]
         o1 == IF CacheHit(c1, u, now)
               THEN Settle([o0 EXCEPT !.got = c1[k].by], "ok", "")
               ELSE [o0 EXCEPT !.gpc = "resolve", !.didIO = TRUE]
         t1 == Register(inFlightRequests, rid, "fetch", i)
     IN /\ xhs' = [xhs EXCEPT !.opCounter = n, !.cache = c1]
        /\ ops' = [ops EXCEPT ![i] = o1]
        /\ inFlightRequests' =
             IF o1.hpc = "done"
             THEN FinallyDelete(t1, {[rid |-> rid, outcome |-> o1.outcome]})
             ELSE t1
        /\ hist' = [hist EXCEPT !.lastCancelled[u] = 0, !.phase = "none",
                                !.dup = @ \/ rid \in DOMAIN inFlightRequests]
  /\ ret' = NoRet
  /\ UNCHANGED <<now, faults, mcp, oai, pure, tc, rn>>

\* resolveFinalUrl returned (lines 19-40, 319), then getClient() (line 320)
Resolved(i, final) ==
  /\ CanGetClient(xhs)
  /\ LET r == getClient(xhs, [ops[i] EXCEPT !.final = final, !.stage = 1], i)
         ns == [ops EXCEPT ![i] = r.o]
     IN /\ xhs' = r.x
        /\ ops' = ns
        /\ inFlightRequests' = TableAfter(ns)

ResolveOk(i) ==
  /\ ops[i].gpc = "resolve"
  /\ Resolved(i, Redirect(ops[i].url))
  /\ ret' = NoRet
  /\ UNCHANGED <<now, faults, hist, mcp, oai, pure, tc, rn>>

\* the redirect request failed or timed out: the original URL is used
ResolveFail(i) ==
  /\ ops[i].gpc = "resolve"
  /\ Redirect(ops[i].url) # ops[i].url
  /\ faults < MaxFaults
  /\ Resolved(i, ops[i].url)
  /\ faults' = faults + 1
  /\ ret' = NoRet
  /\ UNCHANGED <<now, hist, mcp, oai, pure, tc, rn>>

\* a connectNewClient without the check of line 283
NeverStale(a, x) == FALSE

\* connectNewClient line 283: the attempt was superseded by a disconnect
IsStale(a, x) == a.seq # x.connectSeq

\* client.connect(transport) resolved (connectNewClient lines 282-296, getClient 304-309)
ConnectOk ==
  /\ xhs.connecting.id # 0
  /\ LET a  == xhs.connecting
         st == IsStale(a, xhs)
         x1 == [xhs EXCEPT !.connecting = NoAttempt,
                           !.connected = IF st THEN @
                                         ELSE [id |-> a.id, by |-> a.by, seq |-> a.seq],
                           !.connectedKey = IF st THEN @ ELSE WantKey]
         ns == [j \in Ops |->
                  IF ops[j].gpc # "connect" THEN ops[j]
                  ELSE IF st THEN NoClient(ops[j], "reset", a.killKind, a.killOp)
                  ELSE WithClient(ops[j], a.id, x1.detectedToolName)]
     IN /\ xhs' = x1
        /\ ops' = ns
        /\ inFlightRequests' = TableAfter(ns)
  /\ ret' = NoRet
  /\ UNCHANGED <<now, faults, hist, mcp, oai, pure, tc, rn>>

\* client.connect(transport) rejected or timed out (line 282)
ConnectFail ==
  /\ xhs.connecting.id # 0
  /\ faults < MaxFaults
  /\ LET ns == [j \in Ops |->
                  IF ops[j].gpc # "connect" THEN ops[j]
                  ELSE NoClient(ops[j], "connect", "none", 0)]
     IN /\ xhs' = [xhs EXCEPT !.connecting = NoAttempt]
        /\ ops' = ns
        /\ inFlightRequests' = TableAfter(ns)
  /\ faults' = faults + 1
  /\ ret' = NoRet
  /\ UNCHANGED <<now, hist, mcp, oai, pure, tc, rn>>

\* the transport the operation's client uses has been torn down
Closed(o) == o.client # xhs.connected.id

\* listTools() resolved (lines 322-323 at stage 1, lines 387-390 at stage 4)
DetectOk(i) ==
  /\ ops[i].gpc = "detect"
  /\ LET o == ops[i]
         name == IF o.stage = 1 THEN detectToolName(ServerTools)
                 ELSE detectUrlToolFallbackName(ServerTools)
         o1 == IF o.stage = 1
               THEN IF name = "" THEN Settle(o, "error", "detect")
                    ELSE StartCall([o EXCEPT !.tool = name])
               ELSE IF name = "" THEN Settle(o, "error", "toolError")
                    ELSE [o EXCEPT !.tool = name, !.gpc = "call"]
         ns == [ops EXCEPT ![i] = o1]
     IN /\ xhs' = IF o.stage = 1 /\ name # "" /\ CfgToolName = ""
                  THEN [xhs EXCEPT !.detectedToolName = name] ELSE xhs
        /\ ops' = ns
        /\ inFlightRequests' = TableAfter(ns)
  /\ ret' = NoRet
  /\ UNCHANGED <<now, faults, hist, mcp, oai, pure, tc, rn>>

\* listTools() rejected: the transport was closed under it, or a fault
DetectFail(i) ==
  /\ ops[i].gpc = "detect"
  /\ Closed(ops[i]) \/ faults < MaxFaults
  /\ LET o == ops[i]
         o1 == IF o.stage = 1 THEN Settle(o, "error", "detect")
               ELSE Settle(o, "error", "toolError")
         ns == [ops EXCEPT ![i] = o1]
     IN /\ ops' = ns
        /\ inFlightRequests' = TableAfter(ns)
  /\ faults' = IF Closed(ops[i]) THEN faults ELSE faults + 1
  /\ ret' = NoRet
  /\ UNCHANGED <<xhs, now, hist, mcp, oai, pure, tc, rn>>

\* the tool call resolved with a result that is no error (lines 373, 379, 391-394, 410-421)
ToolOk(i) ==
  /\ ops[i].gpc = "call"
  /\ LET o  == ops[i]
         x1 == IF o.stage = 4 THEN [xhs EXCEPT !.detectedToolName = o.tool] ELSE xhs
         ns == [ops EXCEPT ![i] = Settle([o EXCEPT !.got = i], "ok", "")]
     IN /\ xhs' = Store(x1, o, i)
        /\ ops' = ns
        /\ inFlightRequests' = TableAfter(ns)
  /\ ret' = NoRet
  /\ UNCHANGED <<now, faults, hist, mcp, oai, pure, tc, rn>>

\* the tool call threw or timed out (lines 349-371, 380-382, 396-398)
ToolThrow(i) ==
  /\ ops[i].gpc = "call"
  /\ Closed(ops[i]) \/ faults < MaxFaults
  /\ LET o  == ops[i]
         x1 == disconnect(xhs, "retry", i)
         r  == IF o.stage # 1 THEN [x |-> xhs, o |-> NoClient(o, "tool", "none", 0)]
               ELSE IF xhs.connected.id # 0
               THEN [x |-> x1, o |-> [o EXCEPT !.gpc = "close", !.stage = 2]]
               ELSE getClient(x1, [o EXCEPT !.stage = 2], i)
         ns == [ops EXCEPT ![i] = r.o]
     IN /\ o.stage = 1 => CanGetClient(x1) /\ x1.connectSeq <= MaxSeq
        /\ xhs' = r.x
        /\ ops' = ns
        /\ inFlightRequests' = TableAfter(ns)
  /\ faults' = IF Closed(ops[i]) THEN faults ELSE faults + 1
  /\ ret' = NoRet
  /\ UNCHANGED <<now, hist, mcp, oai, pure, tc, rn>>

\* the transport close awaited by disconnect("tool call failed") ended (lines 353-354)
CloseDone(i) ==
  /\ ops[i].gpc = "close"
  /\ CanGetClient(xhs)
  /\ LET r == getClient(xhs, ops[i], i)
         ns == [ops EXCEPT ![i] = r.o]
     IN /\ xhs' = r.x
        /\ ops' = ns
        /\ inFlightRequests' = TableAfter(ns)
  /\ ret' = NoRet
  /\ UNCHANGED <<now, faults, hist, mcp, oai, pure, tc, rn>>

\* a getPost that stores the tool's result before looking at isError
ToolIsErrorCaches(i, nf) ==
  /\ ops[i].gpc = "call"
  /\ faults < MaxFaults
  /\ CanGetClient(xhs)
  /\ LET o == ops[i]
         r == IF o.stage \in {3, 4}
              THEN [x |-> Store(xhs, o, i), o |-> Settle(o, "error", "toolError")]
              ELSE IF o.tool # "get_feed_detail" /\ o.final # o.url /\ nf
              THEN getClient(xhs, [o EXCEPT !.stage = 3], i)
              ELSE IF CfgToolName = "" /\ o.tool = "get_feed_detail" /\ nf
              THEN getClient(xhs, [o EXCEPT !.stage = 4], i)
              ELSE [x |-> Store(xhs, o, i), o |-> Settle(o, "error", "toolError")]
         ns == [ops EXCEPT ![i] = r.o]
     IN /\ xhs' = r.x
        /\ ops' = ns
        /\ inFlightRequests' = TableAfter(ns)
  /\ faults' = faults + 1
  /\ ret' = NoRet
  /\ UNCHANGED <<now, hist, mcp, oai, pure, tc, rn>>

\* the tool call resolved with isError; nf is looksLikeNotFoundError(msg) (lines 373-408)
ToolIsError(i, nf) ==
  /\ ops[i].gpc = "call"
  /\ faults < MaxFaults
  /\ CanGetClient(xhs)
  /\ LET o == ops[i]
         r == IF o.stage \in {3, 4} THEN [x |-> xhs, o |-> Settle(o, "error", "toolError")]
              ELSE IF o.tool # "get_feed_detail" /\ o.final # o.url /\ nf
              THEN getClient(xhs, [o EXCEPT !.stage = 3], i)
              ELSE IF CfgToolName = "" /\ o.tool = "get_feed_detail" /\ nf
              THEN getClient(xhs, [o EXCEPT !.stage = 4], i)
              ELSE [x |-> xhs, o |-> Settle(o, "error", "toolError")]
         ns == [ops EXCEPT ![i] = r.o]
     IN /\ xhs' = r.x
        /\ ops' = ns
        /\ inFlightRequests' = TableAfter(ns)
  /\ faults' = faults + 1
  /\ ret' = NoRet
  /\ UNCHANGED <<now, hist, mcp, oai, pure, tc, rn>>

-----------------------------------------------------------------------------
(* Request Coordinator: cancellation and session reset (main.js lines 388-421) *)

\* a signal only the fetch of downloadImage listens to
SignalStopsFetchOnly(pc) == pc = "download"

\* the I/O of a generate request that listens to its signal: the fetch of
\* downloadImage (main.js lines 224-227) and the request of downloadImageViaNet (lines
\* 114-130)
SignalStops(pc) == pc \in {"download", "net"}

\* a handler that, once its signal has fired, still waits for something downstream
AbortAwaitsDownstream(o) == [o EXCEPT !.aborted = TRUE]

\* the handler of an operation whose abort promise won the race: fetchPost lines
\* 455-458, generateRecipe lines 562 and 595.  The getPost of a fetch is not
\* stopped by it and keeps running; of a generate only the download is followed
\* further (dlio).
AbortWins(o) ==
  Ended([o EXCEPT !.aborted = TRUE, !.hpc = "done", !.outcome = "aborted",
                  !.gpc = IF o.kind = "generate" THEN "done" ELSE @,
                  !.dlio = @ /\ ~SignalStops(o.gpc)])

\* an abortAll that reaches only the fetches
AbortTargetsFetchOnly(t) == {t[id].ctl : id \in {d \in DOMAIN t : t[d].kind = "fetch"}}

\* the controllers request:abortAll aborts (lines 404-413)
AbortTargets(t) == {t[id].ctl : id \in DOMAIN t}

\* the count request:abortAll returns (line 415)
AbortAllCount(t) == Cardinality(DOMAIN t)

\* the disconnect() each aborted fetch handler issues itself (line 456)
RECURSIVE AfterAbortDisconnects(_, _)
AfterAbortDisconnects(x, js) ==
  IF js = {} THEN x
  ELSE LET j == CHOOSE k \in js : TRUE
       IN AfterAbortDisconnects(disconnect(x, "afterAbort", j), js \ {j})

Fetches(js) == {j \in js : ops[j].kind = "fetch"}

\* ipcMain.handle("request:abort") for an id that is registered
AbortRequest(rid) ==
  /\ rid \in DOMAIN inFlightRequests
  /\ LET e  == inFlightRequests[rid]
         j  == e.ctl
         x1 == IF e.kind = "fetch" THEN disconnect(xhs, "abort", j) ELSE xhs
         ns == [ops EXCEPT ![j] = AbortWins(@)]
     IN /\ xhs' = AfterAbortDisconnects(x1, Fetches({j}))
        /\ xhs'.connectSeq <= MaxSeq
        /\ ops' = ns
        /\ inFlightRequests' = TableAfter(ns)
        /\ hist' = IF e.kind = "fetch"
                   THEN [hist EXCEPT !.lastCancelled[ops[j].url] = j]
                   ELSE hist
  /\ ret' = NoRet
  /\ UNCHANGED <<now, faults, mcp, oai, pure, tc, rn>>

\* ipcMain.handle("request:abortAll")
AbortAll ==
  /\ LET js == AbortTargets(inFlightRequests)
         ns == [j \in Ops |-> IF j \in js THEN AbortWins(ops[j]) ELSE ops[j]]
     IN /\ xhs' = AfterAbortDisconnects(disconnect(xhs, "abortAll", 0), Fetches(js))
        /\ xhs'.connectSeq <= MaxSeq
        /\ ops' = ns
        /\ inFlightRequests' = TableAfter(ns)
        /\ ret' = [call |-> "abortAll", aborted |-> AbortAllCount(inFlightRequests),
                   were |-> {inFlightRequests[id].ctl : id \in DOMAIN inFlightRequests}]
        /\ hist' = [hist EXCEPT
                      !.phase = "aborted",
                      !.lastCancelled =
                         [u \in Urls |->
                            IF \E j \in Fetches(js) : ops[j].url = u
                            THEN CHOOSE j \in Fetches(js) : ops[j].url = u
                            ELSE @[u]]]
  /\ UNCHANGED <<now, faults, mcp, oai, pure, tc, rn>>

\* ipcMain.handle("session:clear")
ClearSession ==
  /\ xhs.connectSeq < MaxSeq
  /\ xhs' = resetSession(xhs)
  /\ hist' = [hist EXCEPT !.phase = IF @ = "none" THEN "none" ELSE "cleared"]
  /\ ret' = NoRet
  /\ UNCHANGED <<inFlightRequests, ops, now, faults, mcp, oai, pure, tc, rn>>

\* time passes
Tick ==
  /\ now < MaxNow
  /\ now' = now + 1
  /\ ret' = NoRet
  /\ UNCHANGED <<xhs, inFlightRequests, ops, faults, hist, mcp, oai, pure, tc, rn>>

-----------------------------------------------------------------------------
(* Request Coordinator: generateRecipe (main.js lines 528-621) *)

ImageKinds == {"url", "dataUrl"}

\* the image lists of up to max images a caller may pass
ImageLists(max) == UNION {[1..n -> ImageKinds] : n \in 0..max}

\* how the fetch of downloadImage ends (lines 230-247): with the image, with a status
\* that is not ok, with a content type that is no image, with a body over
\* IMAGE_MAX_BYTES (readResponseBodyWithLimit), or aborted by the timer of line 222
FetchOutcomes == {"image", "http", "ctype", "oversize", "timeout"}

\* how the request of downloadImageViaNet ends (lines 94-203): with the body whatever
\* its content type, with a status outside 2xx, with a body over IMAGE_MAX_BYTES, or
\* with its own timer firing; all but the first make it return null (lines 207-209)
NetOutcomes == {"image", "http", "oversize", "timeout"}

\* a catch of downloadImage that also rethrows the size error
RethrowsSizeToo(f) == f \in {"timeout", "oversize"}

\* line 249: the catch of downloadImage rethrows when its own controller is aborted,
\* which is what the timer of line 222 does; the request's own abort is AbortWins
Rethrows(f) == f = "timeout"

\* one entry of the ghost log dl: how the download of an image went and what the
\* loop did with the image
Logged(o, f, n, res) == [o EXCEPT !.dl = Append(@, [f |-> f, n |-> n, res |-> res])]

\* the image loop up to its next download (lines 551-576)
RECURSIVE ImageLoop(_)
ImageLoop(o) ==
  IF o.idx > Len(o.imgs) THEN [o EXCEPT !.gpc = "model", !.dlio = FALSE, !.f = ""]
  ELSE IF o.imgs[o.idx] = "dataUrl"
  THEN ImageLoop(Logged([o EXCEPT !.attached = @ + 1, !.idx = @ + 1], "", "", "attached"))
  ELSE [o EXCEPT !.gpc = "download", !.dlio = TRUE, !.f = ""]

\* the handler from its start to its first await of I/O; the API key is set
GenerateRecipe(i, rid, imgs) ==
  /\ ops[i].kind = "none"
  /\ \A j \in 1..(i - 1) : ops[j].kind # "none"
  /\ ops' = [ops EXCEPT ![i] =
               ImageLoop([InitOp EXCEPT !.kind = "generate", !.rid = rid, !.hpc = "racing",
                                        !.imgs = imgs, !.idx = 1])]
  /\ inFlightRequests' = Register(inFlightRequests, rid, "generate", i)
  /\ hist' = [hist EXCEPT !.dup = @ \/ rid \in DOMAIN inFlightRequests]
  /\ ret' = NoRet
  /\ UNCHANGED <<xhs, now, faults, mcp, oai, pure, tc, rn>>

\* the handler when no API key is configured (line 535): nothing is registered
GenerateNoKey(i) ==
  /\ ops[i].kind = "none"
  /\ \A j \in 1..(i - 1) : ops[j].kind # "none"
  /\ ops' = [ops EXCEPT ![i] =
               [InitOp EXCEPT !.kind = "generate", !.hpc = "done", !.gpc = "done",
                              !.outcome = "error", !.err = "apiKey"]]
  /\ ret' = NoRet
  /\ UNCHANGED <<xhs, inFlightRequests, now, faults, hist, mcp, oai, pure, tc, rn>>

\* a handler that throws (the finally at lines 618-620 runs)
Fail(o, err) == [o EXCEPT !.hpc = "done", !.gpc = "done", !.outcome = "error", !.err = err]

\* a loop that skips an image it could not preprocess without recording the failure
DownloadedSkipsUnprocessed(o, f, n, got, pre) ==
  ImageLoop(IF ~got
            THEN Logged([o EXCEPT !.failures = Append(@, "download_failed"), !.idx = @ + 1],
                        f, n, "download_failed")
            ELSE IF ~pre
            THEN Logged([o EXCEPT !.idx = @ + 1], f, n, "preprocess_failed")
            ELSE Logged([o EXCEPT !.attached = @ + 1, !.idx = @ + 1], f, n, "attached"))

\* lines 564-575: what the loop does with what downloadImage returned; got is whether
\* it returned an image rather than null, pre is whether preprocessImageForOpenAI
\* yields a data URL
Downloaded(o, f, n, got, pre) ==
  ImageLoop(IF ~got
            THEN Logged([o EXCEPT !.failures = Append(@, "download_failed"), !.idx = @ + 1],
                        f, n, "download_failed")
            ELSE IF ~pre
            THEN Logged([o EXCEPT !.failures = Append(@, "preprocess_failed"), !.idx = @ + 1],
                        f, n, "preprocess_failed")
            ELSE Logged([o EXCEPT !.attached = @ + 1, !.idx = @ + 1], f, n, "attached"))

\* the fetch of downloadImage ended as f (lines 230-251): the image is returned, the
\* error is thrown on to the handler (line 563), or downloadImageViaNet is tried
DownloadDone(i, f, pre) ==
  /\ ops[i].gpc = "download"
  /\ ops[i].hpc = "racing"
  /\ (f = "image" /\ pre) \/ faults < MaxFaults
  /\ LET o  == ops[i]
         ns == [ops EXCEPT ![i] =
                  IF f = "image" THEN Downloaded(o, f, "", TRUE, pre)
                  ELSE IF Rethrows(f)
                  THEN Logged([Fail(o, "download") EXCEPT !.dlio = FALSE], f, "", "threw")
                  ELSE [o EXCEPT !.gpc = "net", !.f = f]]
     IN /\ ops' = ns
        /\ inFlightRequests' = TableAfter(ns)
  /\ faults' = IF f = "image" /\ pre THEN faults ELSE faults + 1
  /\ ret' = NoRet
  /\ UNCHANGED <<xhs, now, hist, mcp, oai, pure, tc, rn>>

\* the request of downloadImageViaNet ended as n (lines 205-210, 251)
NetDone(i, n, pre) ==
  /\ ops[i].gpc = "net"
  /\ ops[i].hpc = "racing"
  /\ ops' = [ops EXCEPT ![i] = Downloaded(@, @.f, n, n = "image", pre)]
  /\ ret' = NoRet
  /\ UNCHANGED <<xhs, inFlightRequests, now, faults, hist, mcp, oai, pure, tc, rn>>

\* generateRecipeMarkdown resolved with text (lines 597, 612-617); model records
\* whose text is returned
ModelOk(i) ==
  /\ ops[i].gpc \in {"model", "fallback"}
  /\ ops[i].hpc = "racing"
  /\ LET ns == [ops EXCEPT ![i] =
                  [@ EXCEPT !.hpc = "done", !.gpc = "done", !.outcome = "ok",
                            !.model = IF @ = "" /\ ops[i].gpc = "fallback"
                                      THEN "fallback" ELSE "primary"]]
     IN /\ ops' = ns
        /\ inFlightRequests' = TableAfter(ns)
  /\ ret' = NoRet
  /\ UNCHANGED <<xhs, now, faults, hist, mcp, oai, pure, tc, rn>>

\* the ways generateRecipeMarkdown rejects: "blank" ("OpenAI returned blank content"
\* or "... no content"), "refusal" ("OpenAI refusal: " and the model's words),
\* "api" (the API's error and its message)
FailureClasses == {"blank", "refusal", "api"}

\* line 603: the test on the error's message; marked is whether the free text of the
\* message holds "blank content", "no content" or "incomplete (max_output_tokens)"
IsBlank(cls, marked) == cls = "blank" \/ marked

\* generateRecipeMarkdown rejected with an error of class cls; g5 is whether
\* cfg.openai.model (read at line 533) is of the gpt-5 family (lines 600-610)
ModelFails(i, cls, marked, g5) ==
  /\ ops[i].gpc \in {"model", "fallback"}
  /\ ops[i].hpc = "racing"
  /\ faults < MaxFaults
  /\ cls = "blank" => marked
  /\ ops[i].gpc = "fallback" => g5
  /\ LET o  == ops[i]
         ns == [ops EXCEPT ![i] =
                  IF o.gpc = "model" /\ IsBlank(cls, marked) /\ g5
                  THEN [o EXCEPT !.gpc = "fallback", !.g5 = g5, !.cls = cls, !.fb = @ + 1]
                  ELSE IF o.gpc = "model"
                  THEN [Fail(o, IF IsBlank(cls, marked) THEN "blank" ELSE "openai")
                          EXCEPT !.g5 = g5, !.cls = cls]
                  ELSE Fail(o, IF IsBlank(cls, marked) THEN "blank" ELSE "openai")]
     IN /\ ops' = ns
        /\ inFlightRequests' = TableAfter(ns)
  /\ faults' = faults + 1
  /\ ret' = NoRet
  /\ UNCHANGED <<xhs, now, hist, mcp, oai, pure, tc, rn>>

-----------------------------------------------------------------------------
(* The coordinator and the Tool Client together *)

InitCore ==
  /\ xhs = [connected |-> NoConn, connecting |-> NoAttempt, detectedToolName |-> "",
            connectSeq |-> 0, connectedKey |-> "", cache |-> <<>>, opCounter |-> 0,
            connCount |-> 0]
  /\ inFlightRequests = [id \in {} |-> [kind |-> "fetch", ctl |-> 0]]
  /\ ops = [i \in Ops |-> InitOp]
  /\ now = 0
  /\ faults = 0
  /\ hist = [lastCancelled |-> [u \in Urls |-> 0], phase |-> "none", dup |-> FALSE]
  /\ ret = NoRet

Next ==
  \/ \E i \in Ops : \E u \in Urls, rid \in CallerIds \cup {Uuid(i)} : FetchPost(i, u, rid)
  \/ \E i \in Ops : ResolveOk(i)
  \/ \E i \in Ops : ResolveFail(i)
  \/ ConnectOk
  \/ ConnectFail
  \/ \E i \in Ops : DetectOk(i)
  \/ \E i \in Ops : DetectFail(i)
  \/ \E i \in Ops : ToolOk(i)
  \/ \E i \in Ops : ToolThrow(i)
  \/ \E i \in Ops : CloseDone(i)
  \/ \E i \in Ops, nf \in BOOLEAN : ToolIsError(i, nf)
  \/ \E rid \in DOMAIN inFlightRequests : AbortRequest(rid)
  \/ AbortAll
  \/ ClearSession
  \/ Tick
  \/ \E i \in Ops : \E rid \in CallerIds \cup {Uuid(i)}, imgs \in ImageLists(MaxImages) :
        GenerateRecipe(i, rid, imgs)
  \/ \E i \in Ops : GenerateNoKey(i)
  \/ \E i \in Ops, f \in {"image", "http", "timeout"}, pre \in BOOLEAN :
        DownloadDone(i, f, pre)
  \/ \E i \in Ops, n \in {"image", "http"} : NetDone(i, n, TRUE)
  \/ \E i \in Ops : ModelOk(i)
  \/ \E i \in Ops : ModelFails(i, "api", FALSE, FALSE)

\* generateRecipe alone, with longer image lists and every way a download or the
\* model can fail
GenerateNext ==
  \/ \E i \in Ops : \E rid \in CallerIds \cup {Uuid(i)}, imgs \in ImageLists(MaxGenImages) :
        GenerateRecipe(i, rid, imgs)
  \/ \E i \in Ops : GenerateNoKey(i)
  \/ \E i \in Ops, f \in FetchOutcomes, pre \in BOOLEAN : DownloadDone(i, f, pre)
  \/ \E i \in Ops, n \in NetOutcomes, pre \in BOOLEAN : NetDone(i, n, pre)
  \/ \E i \in Ops : ModelOk(i)
  \/ \E i \in Ops, cls \in FailureClasses, marked \in BOOLEAN, g5 \in BOOLEAN :
        ModelFails(i, cls, marked, g5)
  \/ \E rid \in DOMAIN inFlightRequests : AbortRequest(rid)
  \/ AbortAll

-----------------------------------------------------------------------------
(* Process Launcher (mcpLauncher.js, createMcpLauncher) *)

\* number of ensureStarted calls in one run
MaxEnsures == 2
\* number of health probes one polling loop may issue before its deadline is reached
MaxPolls == 2
\* number of times the endpoint changes between down, busy and up
MaxEnv == 2

Ensures == 1..MaxEnsures

\* the configurations configStore.getResolvedConfig() may return (line 125), one for
\* each way the checks of lines 126-156 and 212 can go: Stdio transport, no
\* executable path, no endpoint URL, and two executable paths with an endpoint URL
Cfg(t, exe, url) == [transport |-> t, exePath |-> exe, httpUrl |-> url]
Cfgs == {Cfg("stdio", "a", "u"), Cfg("http", "", "u"), Cfg("http", "a", ""),
         Cfg("http", "a", "u"), Cfg("http", "b", "u")}
NoCfg == [transport |-> "", exePath |-> "", httpUrl |-> ""]

\* the endpoint: "down" (port closed), "busy" (port open, no answer), "up" (healthy)
Endpoints == {"down", "busy", "up"}

Idle == [state |-> "idle", code |-> "", message |-> "Idle"]

\* one attempt (the async body of ensureStarted); healthy, exeOk, spawns and kills
\* record what happened during it and are read only by the properties
NoRun == [pc |-> "none", cfg |-> NoCfg, polls |-> 0, healthy |-> FALSE, exeOk |-> FALSE,
          spawns |-> 0, kills |-> 0, result |-> Idle]
\* one ensureStarted call: the attempt whose promise it got and what it resolved with
NoCall == [st |-> "idle", run |-> 0, result |-> Idle]

\* a setStatus that loses every error status
setStatusDropsError(m, state, code, message) ==
  IF state = "error" THEN m
  ELSE [m EXCEPT !.status = [state |-> state, code |-> code, message |-> message]]

\* setStatus(next)
setStatus(m, state, code, message) ==
  [m EXCEPT !.status = [state |-> state, code |-> code, message |-> message]]

\* a stopChild that forgets the child without killing it
stopChildForgetsOnly(m) ==
  IF m.child = 0 THEN m ELSE [m EXCEPT !.child = 0, !.childExePath = ""]

\* stopChild(reason): kill the tracked child and forget it
stopChild(m) ==
  IF m.child = 0 THEN m
  ELSE [m EXCEPT !.procs = @ \ {m.child}, !.child = 0, !.childExePath = ""]

\* stopChild called by attempt r
stopChildBy(m, r) ==
  [stopChild(m) EXCEPT !.runs[r].kills = IF m.child \in m.procs THEN @ + 1 ELSE @]

\* an ensureStarted that never joins the attempt in progress
NeverCoalesced(m) == FALSE

\* line 123: a call finds an attempt in progress
Coalesced(m) == m.ensurePromise # 0

\* a probe that never succeeds
ProbeNever(m) == FALSE

\* what isReady(httpUrl) answers (mcpHttpHealthCheck within HEALTHCHECK_TIMEOUT_MS)
ProbeOk(m) == m.endpoint = "up"

\* a port check that never finds the port taken
PortOpenNever(m) == FALSE

\* what isTcpPortOpen answers
PortOpen(m) == m.endpoint \in {"busy", "up"}

\* the attempt returns getStatus(); the finally of lines 285-287 runs and every call
\* holding the attempt's promise resolves
Finish(m, r) ==
  [m EXCEPT !.runs[r].pc = "done",
            !.runs[r].polls = 0,
            !.runs[r].result = m.status,
            !.ensurePromise = 0,
            !.calls = [c \in Ensures |->
                         IF @[c].st = "pending" /\ @[c].run = r
                         THEN [st |-> "returned", run |-> r, result |-> m.status]
                         ELSE @[c]]]

\* lines 124-159: a new attempt up to its first await of I/O
Begin(m, c, cfg) ==
  LET m0 == [m EXCEPT !.calls[c] = [st |-> "pending", run |-> c, result |-> Idle],
                      !.runs[c] = [NoRun EXCEPT !.pc = "access", !.cfg = cfg,
                                                !.healthy = m.endpoint = "up"],
                      !.ensurePromise = c]
  IN IF cfg.transport # "http"
     THEN Finish(setStatus(m0, "disabled", "", "disabled"), c)
     ELSE IF cfg.exePath = ""
     THEN Finish(setStatus(stopChildBy(m0, c), "needs_path", "", "needs_path"), c)
     ELSE IF cfg.httpUrl = ""
     THEN Finish(setStatus(m0, "error", "", "missing_url"), c)
     ELSE m0

\* ensureStarted({ reason }) called
EnsureStarted(c, cfg) ==
  /\ mcp.calls[c].st = "idle"
  /\ \A d \in 1..(c - 1) : mcp.calls[d].st # "idle"
  /\ mcp' = IF Coalesced(mcp)
            THEN [mcp EXCEPT !.calls[c] = [st |-> "pending", run |-> mcp.ensurePromise,
                                           result |-> Idle],
                             !.shut = FALSE]
            ELSE Begin([mcp EXCEPT !.shut = FALSE], c, cfg)
  /\ UNCHANGED <<coreVars, oai, pure, tc, rn>>

\* fs.access(exePath) resolved (line 159)
AccessOk(r) ==
  /\ mcp.runs[r].pc = "access"
  /\ mcp' = [mcp EXCEPT !.runs[r].pc = "probe", !.runs[r].exeOk = TRUE]
  /\ UNCHANGED <<coreVars, oai, pure, tc, rn>>

\* fs.access(exePath) rejected (lines 160-170)
AccessFail(r) ==
  /\ mcp.runs[r].pc = "access"
  /\ mcp' = Finish(setStatus(stopChildBy(mcp, r), "error", "", "exe_missing"), r)
  /\ UNCHANGED <<coreVars, oai, pure, tc, rn>>

\* lines 212-260: stop a child of another path, spawn if none is tracked; throws is
\* whether spawn() throws synchronously
Launch(m, r, throws) ==
  LET exe == m.runs[r].cfg.exePath
      m1 == IF m.child # 0 /\ m.childExePath # "" /\ m.childExePath # exe
            THEN stopChildBy(m, r) ELSE m
      pid == m1.spawned + 1
  IN IF m1.child # 0
     THEN [setStatus(m1, "starting", "", "starting") EXCEPT !.runs[r].pc = "poll"]
     ELSE IF throws
     THEN Finish(setStatus([m1 EXCEPT !.childExePath = exe], "error", "spawn", "launch"), r)
     ELSE [setStatus(m1, "starting", "", "starting") EXCEPT
             !.childExePath = exe, !.child = pid, !.procs = @ \cup {pid},
             !.spawned = pid, !.runs[r].spawns = @ + 1, !.runs[r].pc = "poll"]

\* the first isReady(httpUrl) settled (lines 173-179). An endpoint that is up answers
\* connect and listTools, a closed port refuses the connection, and in both cases the
\* finally of mcpHttpHealthCheck has closed the transport before isReady settles (41-51);
\* a busy endpoint leaves connect pending, isReady settles by the timer of withTimeout
\* (17-23, 101-103) and the session stays open
FirstProbe(r) ==
  /\ mcp.runs[r].pc = "probe"
  /\ mcp' = IF ProbeOk(mcp)
            THEN Finish(setStatus(mcp, "ready", "", "ready"), r)
            ELSE [mcp EXCEPT !.runs[r].pc = "port",
                             !.sessions = IF mcp.endpoint = "busy" THEN @ + 1 ELSE @]
  /\ UNCHANGED <<coreVars, oai, pure, tc, rn>>

\* isTcpPortOpen settled (lines 182-186, 212-260)
PortChecked(r, throws) ==
  /\ mcp.runs[r].pc = "port"
  /\ throws => /\ ~PortOpen(mcp)
               /\ \/ mcp.child = 0
                  \/ mcp.childExePath \notin {"", mcp.runs[r].cfg.exePath}
  /\ mcp' = IF PortOpen(mcp)
            THEN [mcp EXCEPT !.runs[r].pc = "portProbe", !.runs[r].polls = 0]
            ELSE Launch(mcp, r, throws)
  /\ UNCHANGED <<coreVars, oai, pure, tc, rn>>

\* an isReady(httpUrl) of one of the two polling loops settled (lines 188-193, 265-272)
Probed(r) ==
  /\ mcp.runs[r].pc \in {"portProbe", "poll"}
  /\ mcp' = IF ProbeOk(mcp)
            THEN Finish(setStatus(mcp, "ready", "", "ready"), r)
            ELSE [mcp EXCEPT !.runs[r].polls = @ + 1,
                             !.runs[r].pc = IF @ = "poll" THEN "pollSleep" ELSE "portSleep",
                             !.sessions = IF mcp.endpoint = "busy" THEN @ + 1 ELSE @]
  /\ UNCHANGED <<coreVars, oai, pure, tc, rn>>

\* sleep(READY_POLL_INTERVAL_MS) ended; expired is whether the loop's deadline has passed
\* (lines 187, 196-210 and 264, 275-284)
Slept(r, expired) ==
  /\ mcp.runs[r].pc \in {"portSleep", "pollSleep"}
  /\ ~expired => mcp.runs[r].polls < MaxPolls
  /\ mcp' = IF ~expired
            THEN [mcp EXCEPT !.runs[r].pc = IF @ = "pollSleep" THEN "poll" ELSE "portProbe"]
            ELSE IF mcp.runs[r].pc = "portSleep"
            THEN Finish(setStatus(stopChildBy(mcp, r), "error", "port_in_use", "port_in_use"), r)
            ELSE Finish(setStatus(mcp, "error", "startup_timeout", "startup_timeout"), r)
  /\ UNCHANGED <<coreVars, oai, pure, tc, rn>>

\* the tracked child emitted "exit" (lines 236-245): it is no longer running
ChildExit ==
  /\ mcp.child \in mcp.procs
  /\ mcp' = [(IF mcp.status.state = "ready" THEN mcp
              ELSE setStatus(mcp, "error", "", "exited"))
             EXCEPT !.procs = @ \ {mcp.child}]
  /\ UNCHANGED <<coreVars, oai, pure, tc, rn>>

\* the tracked child emitted "error" (lines 225-235): it could not be started
ChildError ==
  /\ mcp.child \in mcp.procs
  /\ mcp' = [setStatus(mcp, "error", "spawn", "failed_to_start")
             EXCEPT !.procs = @ \ {mcp.child}]
  /\ UNCHANGED <<coreVars, oai, pure, tc, rn>>

\* the connect of a health check that had timed out settles at last and the finally of
\* mcpHttpHealthCheck closes its transport (lines 44-50)
ProbeSettled ==
  /\ mcp.sessions > 0
  /\ mcp' = [mcp EXCEPT !.sessions = @ - 1]
  /\ UNCHANGED <<coreVars, oai, pure, tc, rn>>

\* shutdown()
Shutdown ==
  /\ mcp' = [stopChild(mcp) EXCEPT !.shut = TRUE]
  /\ UNCHANGED <<coreVars, oai, pure, tc, rn>>

\* the endpoint goes down, is taken by another program, or starts answering
EndpointChanges(e) ==
  /\ mcp.envChanges < MaxEnv
  /\ e # mcp.endpoint
  /\ mcp' = [mcp EXCEPT !.endpoint = e, !.envChanges = @ + 1,
                        !.runs = [r \in Ensures |->
                                    IF @[r].pc \notin {"none", "done"} /\ e # "up"
                                    THEN [@[r] EXCEPT !.healthy = FALSE] ELSE @[r]]]
  /\ UNCHANGED <<coreVars, oai, pure, tc, rn>>

\* shut is read only by the properties: shutdown() was called and ensureStarted has
\* not been called since; sessions counts the transports of health checks that are
\* still open although their isReady has settled
InitLauncher ==
  mcp = [child |-> 0, childExePath |-> "", status |-> Idle, ensurePromise |-> 0,
         runs |-> [r \in Ensures |-> NoRun], calls |-> [c \in Ensures |-> NoCall],
         procs |-> {}, spawned |-> 0, endpoint |-> "down", envChanges |-> 0,
         shut |-> FALSE, sessions |-> 0]

LauncherNext ==
  \/ \E c \in Ensures, cfg \in Cfgs : EnsureStarted(c, cfg)
  \/ \E r \in Ensures : AccessOk(r)
  \/ \E r \in Ensures : AccessFail(r)
  \/ \E r \in Ensures : FirstProbe(r)
  \/ \E r \in Ensures, throws \in BOOLEAN : PortChecked(r, throws)
  \/ \E r \in Ensures : Probed(r)
  \/ \E r \in Ensures, expired \in BOOLEAN : Slept(r, expired)
  \/ ChildExit
  \/ ChildError
  \/ ProbeSettled
  \/ Shutdown
  \/ \E e \in Endpoints : EndpointChanges(e)

-----------------------------------------------------------------------------
(* Completion Client (openaiClient.js, createOpenAIClient) *)

\* number of API calls the server's script answers
MaxApiCalls == 4
\* withRetry's retries (generateRecipeMarkdown line 141)
RETRIES == 2

\* what the API may answer to one call:
\*   "text"    a response with non-blank text
\*   "blank"   a response whose text is blank
\*   "refusal" a response carrying a refusal and no text
\*   "u_mot"   400, Unsupported parameter max_output_tokens
\*   "u_tok"   400, Unsupported parameter max_tokens or max_completion_tokens
\*   "u_temp"  400, Unsupported value of temperature
\*   "u_other" 400, Unsupported parameter of another name
\*   "rate"    429
\*   "server"  503
\*   "fatal"   401
Replies == {"text", "blank", "refusal", "u_mot", "u_tok", "u_temp", "u_other", "rate",
            "server", "fatal"}
Unsupported == {"u_mot", "u_tok", "u_temp", "u_other"}

\* the extra parameters of each variant (lines 64 and 113-120)
ResponsesVariants == <<{"max_output_tokens"}, {}>>
ChatVariants == <<{"temperature", "max_completion_tokens"}, {"max_completion_tokens"},
                  {"temperature", "max_tokens"}, {"max_tokens"}, {"temperature"}, {}>>

\* line 92: /^gpt-5/i.test(model) selects the Responses API
Variants(g5) == IF g5 THEN ResponsesVariants ELSE ChatVariants

\* a chat cascade that does not look for the temperature error
NextVariantTokensOnly(g5, reply) ==
  IF g5 THEN reply = "u_mot" ELSE reply = "u_tok"

\* the catch of each cascade: the error moves on to the next variant (lines 80-82, 132-136)
NextVariant(g5, reply) ==
  IF g5 THEN reply = "u_mot" ELSE reply \in {"u_tok", "u_temp"}

\* err.status of the error a reply is thrown as (line 15); 0 when it has none
Status(reply) ==
  CASE reply \in Unsupported -> 400
    [] reply = "rate" -> 429
    [] reply = "server" -> 503
    [] reply = "fatal" -> 401
    [] OTHER -> 0

\* a withRetry that takes every error for retryable
RetryableAlways(reply) == TRUE

\* withRetry line 16
Retryable(reply) == Status(reply) = 429 \/ (Status(reply) >= 500 /\ Status(reply) <= 599)

\* the error a reply that is no usable text ends the cascade with
ErrorOf(g5, reply) ==
  CASE reply = "blank" -> "blank"
    [] reply = "refusal" -> IF g5 THEN "refusal" ELSE "no_content"
    [] OTHER -> reply

NoScript == [k \in 1..MaxApiCalls |-> "text"]

\* the scripts a call may meet; a client that is busy takes no second call
Scripts(o) == IF o.pc = "idle" THEN [1..MaxApiCalls -> Replies] ELSE {}

InitCompletion ==
  oai = [pc |-> "idle", g5 |-> FALSE, script |-> NoScript, v |-> 0, attempt |-> 0,
         calls |-> 0, result |-> "", err |-> "", at |-> 0,
         reruns |-> 0, why |-> {}, cancelled |-> FALSE, after |-> 0]

\* generateRecipeMarkdown called; script is what the API will answer, call by call
GenerateRecipeMarkdown(g5, script) ==
  /\ oai.pc = "idle"
  /\ oai' = [oai EXCEPT !.pc = "call", !.g5 = g5, !.script = script, !.v = 1]
  /\ UNCHANGED <<coreVars, mcp, pure, tc, rn>>

\* the call's promise rejects with err: withRetry's catch (lines 13-21)
Thrown(o, err, reply) ==
  IF Retryable(reply) /\ o.attempt + 1 <= RETRIES
  THEN [o EXCEPT !.pc = "sleep", !.attempt = @ + 1, !.why = @ \cup {reply}]
  ELSE [o EXCEPT !.pc = "done", !.attempt = @ + 1, !.result = "error", !.err = err]

\* one more API call is issued; after counts those issued once the signal has fired
Issued(o) == [o EXCEPT !.after = IF o.cancelled THEN @ + 1 ELSE @]

\* client.responses.create / client.chat.completions.create settled
ApiReply ==
  /\ oai.pc = "call"
  /\ oai.calls < MaxApiCalls
  /\ LET reply == oai.script[oai.calls + 1]
         o == [oai EXCEPT !.calls = @ + 1]
     IN oai' =
          IF reply = "text"
          THEN [o EXCEPT !.pc = "done", !.result = "text", !.at = o.v]
          ELSE IF reply \in Unsupported /\ NextVariant(o.g5, reply)
          THEN IF o.v < Len(Variants(o.g5))
               THEN Issued([o EXCEPT !.v = @ + 1])
               ELSE Thrown(o, ErrorOf(o.g5, reply), reply)
          ELSE Thrown(o, ErrorOf(o.g5, reply), reply)
  /\ UNCHANGED <<coreVars, mcp, pure, tc, rn>>

\* withRetry's sleep(delay) ended: fn() runs again from its first variant
RetrySleepDone ==
  /\ oai.pc = "sleep"
  /\ oai' = Issued([oai EXCEPT !.pc = "call", !.v = 1, !.reruns = @ + 1])
  /\ UNCHANGED <<coreVars, mcp, pure, tc, rn>>

\* the signal passed to generateRecipeMarkdown fires (main.js lines 590 and 392, 408);
\* the function takes no signal from its argument (line 88), so nothing else changes
Cancel ==
  /\ oai.pc \in {"call", "sleep"}
  /\ ~oai.cancelled
  /\ oai' = [oai EXCEPT !.cancelled = TRUE]
  /\ UNCHANGED <<coreVars, mcp, pure, tc, rn>>

CompletionNext ==
  \/ \E g5 \in BOOLEAN, script \in Scripts(oai) : GenerateRecipeMarkdown(g5, script)
  \/ ApiReply
  \/ RetrySleepDone
  \/ Cancel

-----------------------------------------------------------------------------
(* Pure functions of the Tool Client and of the URL sanitizer, each applied once to an
   argument drawn from a bounded set *)

\* longest image list of a tool response
MaxDescriptors == 3
\* most pieces an input text of extractFirstHttpsUrl is put together from
MaxChunks == 4

\* the texts that occur, each a sequence of characters
T ==
  [abc |-> <<"a", "b", "c">>,
   item |-> <<"i", "t", "e", "m">>,
   Item |-> <<"I", "t", "e", "m">>,
   items |-> <<"i", "t", "e", "m", "s">>,
   explore |-> <<"e", "x", "p", "l", "o", "r", "e">>,
   discovery |-> <<"d", "i", "s", "c", "o", "v", "e", "r", "y">>,
   id8 |-> <<"6", "5", "a", "b", "c", "d", "e", "f">>,
   dash |-> <<"a", "b", "c", "-", "d", "e", "f", "g", "h">>,
   T1 |-> <<"T", "1">>,
   one |-> <<"1">>,
   https |-> <<"h", "t", "t", "p", "s", ":", "/", "/">>,
   HTTPS |-> <<"H", "T", "T", "P", "S", ":", "/", "/">>,
   http |-> <<"h", "t", "t", "p", ":", "/", "/">>]

\* String.prototype.toLowerCase, on the characters that occur
ToLowerCase(t) == [k \in 1..Len(t) |-> IF t[k] = "I" THEN "i" ELSE t[k]]

\* part_001 line 79: /^[0-9a-zA-Z]{8,}$/.test(seg), on the characters that occur
LooksLikeId(seg) ==
  LET AlNum == {"a", "b", "c", "d", "e", "f", "g", "h", "i", "l", "m", "o", "p", "r",
                "s", "t", "v", "x", "y", "I", "T", "1", "5", "6"}
  IN Len(seg) >= 8 /\ \A k \in 1..Len(seg) : seg[k] \in AlNum

\* URLSearchParams.get(key): the first value under key, the empty text standing for null
Get(params, key) ==
  IF \E k \in 1..Len(params) : params[k][1] = key
  THEN params[CHOOSE k \in 1..Len(params) :
                /\ params[k][1] = key
                /\ \A m \in 1..(k - 1) : params[m][1] # key][2]
  ELSE <<>>

\* a || b on texts
Or(a, b) == IF a # <<>> THEN a ELSE b

\* lines 73-84: the last path segment that is none of the skipped words (line 78) and
\* looks like an id, the empty text if none
RECURSIVE IdFromPath(_, _)
IdFromPath(segments, i) ==
  IF i = 0 THEN <<>>
  ELSE IF /\ ToLowerCase(segments[i]) \notin {T.explore, T.discovery, T.item, T.items}
          /\ LooksLikeId(segments[i])
  THEN segments[i]
  ELSE IdFromPath(segments, i - 1)

NoArgs == [feedId |-> <<>>, xsecToken |-> <<>>]

\* extractFeedIdAndToken(urlStr), on the URL as new URL(urlStr) parsed it: path
\* segments, query parameters, parameters after "?" in the hash; NoArgs is null
extractFeedIdAndToken(u) ==
  LET xsecToken == Or(Get(u.query, "xsec_token"), Or(Get(u.query, "xsecToken"),
                   Or(Get(u.hash, "xsec_token"), Get(u.hash, "xsecToken"))))
      feedIdFromParams == Or(Get(u.query, "feed_id"), Or(Get(u.query, "feedId"),
                          Or(Get(u.query, "note_id"), Or(Get(u.query, "noteId"),
                             Get(u.query, "id")))))
      feedId == IF feedIdFromParams # <<>> THEN feedIdFromParams
                ELSE IdFromPath(u.path, Len(u.path))
  IN IF feedId = <<>> \/ xsecToken = <<>> THEN NoArgs
     ELSE [feedId |-> feedId, xsecToken |-> xsecToken]

\* getPost line 341: the arguments of the get_feed_detail call
FeedCallArguments(feedArgs) ==
  [feed_id |-> feedArgs.feedId, xsec_token |-> feedArgs.xsecToken,
   load_all_comments |-> FALSE]

\* the resolved URLs extractFeedIdAndToken is applied to
ParsedUrls ==
  LET Params == {<<k, v>> : k \in {"xsec_token", "xsecToken", "feed_id", "id", "x"},
                            v \in {T.T1, T.one, <<>>}}
  IN [path  : {<<>>, <<T.discovery, T.item, T.abc>>, <<T.discovery, T.item, T.id8>>,
               <<T.id8, T.Item>>, <<T.id8, T.dash>>, <<T.abc>>},
      query : UNION {[1..n -> Params] : n \in 0..1}
                \cup {<<<<"xsec_token", <<>>>>, <<"xsec_token", T.T1>>>>,
                      <<<<"x", T.one>>, <<"xsec_token", T.T1>>>>},
      hash  : {<<>>, <<<<"xsec_token", T.T1>>>>, <<<<"xsecToken", T.T1>>>>}]

InitPure == pure = [fn |-> "", arg |-> <<>>, out |-> <<>>, call |-> <<>>]

\* getPost lines 325-345 for a resolved URL u when the tool is get_feed_detail: call
\* lists the arguments of the tool calls made, none when lines 329-331 throw instead
ExtractFeedIdAndToken(u) ==
  /\ pure.fn = ""
  /\ LET r == extractFeedIdAndToken(u)
     IN pure' = [fn |-> "extractFeedIdAndToken", arg |-> u, out |-> r,
                 call |-> IF r = NoArgs THEN <<>> ELSE <<FeedCallArguments(r)>>]
  /\ UNCHANGED <<coreVars, mcp, oai, tc, rn>>

\* the image lists of a tool response, by what normalizeImages looks at in each
\* descriptor: a falsy item, a string, or an object; text is the class of the string
\* or of the first truthy of the object's url fields (line 146), data whether the
\* object has a string under data, base64 or dataUrl (line 153)
DescriptorLists ==
  LET Descriptors ==
        {[type |-> "null", text |-> "", data |-> FALSE]}
          \cup [type : {"string"}, text : {"http", "data", "other"}, data : {FALSE}]
          \cup [type : {"object"}, text : {"http", "data", "other", ""}, data : BOOLEAN]
  IN UNION {[1..n -> Descriptors] : n \in 0..MaxDescriptors}

\* /^https?:\/\//i on a text of the given class
IsHttp(text) == text = "http"

\* an id that does not depend on the index
ImageIdFirst(k) == <<"img_", 1>>

\* `img_${i + 1}` for the descriptor at list index i = k - 1
ImageId(k) == <<"img_", k>>

\* lines 136-158: what the k-th descriptor adds to out; from is the ghost index of the
\* descriptor
ImagesOf(item, k) ==
  LET Image(kind) == <<[id |-> ImageId(k), kind |-> kind, from |-> k]>> IN
  IF item.type = "null" THEN <<>>
  ELSE IF item.type = "string"
  THEN IF IsHttp(item.text) THEN Image("url")
       ELSE IF item.text = "data" THEN Image("dataUrl")
       ELSE <<>>
  ELSE IF IsHttp(item.text) THEN Image("url")
  ELSE IF item.data THEN Image("dataUrl")
  ELSE <<>>

\* normalizeImages: its loop from list index k on
RECURSIVE normalizeImages(_, _)
normalizeImages(list, k) ==
  IF k > Len(list) THEN <<>>
  ELSE ImagesOf(list[k], k) \o normalizeImages(list, k + 1)

\* normalizePost line 186 on the image list of a tool response
NormalizeImages(list) ==
  /\ pure.fn = ""
  /\ pure' = [fn |-> "normalizeImages", arg |-> list, out |-> normalizeImages(list, 1),
              call |-> <<>>]
  /\ UNCHANGED <<coreVars, mcp, oai, tc, rn>>

\* part_000 lines 54-77; the characters outside ASCII go by their code points
HARD_STOP_CHARS ==
  {"\"", "'", "U+201C", "U+201D", "U+2018", "U+2019", ")", "U+FF09", "]", "U+3011", "}",
   ">", "U+300B", "U+3009", "U+300D", "U+300F", "U+FF0C", "U+3002", "U+3001", "U+FF1B",
   "U+FF01", "U+FF1F"}

\* part_000 lines 79-87
TRAILING_TRIM_CHARS == HARD_STOP_CHARS \cup {",", ".", ";", "!", "?", ":"}

\* the characters /\s/ matches, of those that occur
Whitespace == {" ", "\n"}

RECURSIVE Concat(_)
Concat(chunks) == IF chunks = <<>> THEN <<>> ELSE Head(chunks) \o Concat(Tail(chunks))

\* the input texts, put together from pieces
InputTexts ==
  LET Chunks == {T.https, T.HTTPS, T.http, <<"a">>, <<"/">>, <<" ">>, <<"\n">>, <<")">>,
                 <<".">>, <<":">>, <<"U+3002">>}
  IN {Concat(cs) : cs \in UNION {[1..n -> Chunks] : n \in 0..MaxChunks}}

\* text.startsWith(needle, i - 1)
StartsAt(text, needle, i) ==
  /\ i + Len(needle) - 1 <= Len(text)
  /\ SubSeq(text, i, i + Len(needle) - 1) = needle

\* text.indexOf(needle, i - 1) + 1, so 0 where indexOf gives -1
RECURSIVE IndexOf(_, _, _)
IndexOf(text, needle, i) ==
  IF i > Len(text) THEN 0
  ELSE IF StartsAt(text, needle, i) THEN i
  ELSE IndexOf(text, needle, i + 1)

\* lines 105-112: the length of tail up to its first whitespace or hard stop
RECURSIVE EndFrom(_, _)
EndFrom(tail, i) ==
  IF i > Len(tail) THEN Len(tail)
  ELSE IF tail[i] \in Whitespace \/ tail[i] \in HARD_STOP_CHARS THEN i - 1
  ELSE EndFrom(tail, i + 1)

\* a trimTrailingPunctuation that trims nothing
NoTrim(text) == text

\* lines 89-97
RECURSIVE trimTrailingPunctuation(_)
trimTrailingPunctuation(text) ==
  IF Len(text) > 0 /\ text[Len(text)] \in TRAILING_TRIM_CHARS
  THEN trimTrailingPunctuation(SubSeq(text, 1, Len(text) - 1))
  ELSE text

\* the null extractFirstHttpsUrl returns, which is no text
NullText == <<"null">>

\* part_000 lines 99-118
extractFirstHttpsUrl(input) ==
  LET idx == IndexOf(input, T.https, 1) IN
  IF idx = 0 THEN NullText
  ELSE LET tail      == SubSeq(input, idx, Len(input))
           end       == EndFrom(tail, 1)
           candidate == trimTrailingPunctuation(SubSeq(tail, 1, end))
       IN IF ~StartsAt(candidate, T.https, 1) THEN NullText
          ELSE IF Len(candidate) <= Len(T.https) THEN NullText
          ELSE candidate

ExtractFirstHttpsUrl(input) ==
  /\ pure.fn = ""
  /\ pure' = [fn |-> "extractFirstHttpsUrl", arg |-> input,
              out |-> extractFirstHttpsUrl(input), call |-> <<>>]
  /\ UNCHANGED <<coreVars, mcp, oai, tc, rn>>

\* the arguments still to choose from: none once a function has been applied
Arguments(S) == IF pure.fn = "" THEN S ELSE {}

PureNext ==
  \/ \E u \in Arguments(ParsedUrls) : ExtractFeedIdAndToken(u)
  \/ \E list \in Arguments(DescriptorLists) : NormalizeImages(list)
  \/ \E input \in Arguments(InputTexts) : ExtractFirstHttpsUrl(input)

\* C12: for https://www.xiaohongshu.com/discovery/item/abc?xsec_token=T1, what
\* https://xhslink.com/abc?x=1 resolves to, and the tool get_feed_detail, extraction
\* yields feedId "abc" and xsecToken "T1", and the tool is called with exactly the two
\* fields feed_id = "abc" and xsec_token = "T1".
C12_ScenarioExtraction ==
  /\ pure.fn = "extractFeedIdAndToken"
  /\ pure.arg = [path |-> <<T.discovery, T.item, T.abc>>,
                 query |-> <<<<"xsec_token", T.T1>>>>, hash |-> <<>>]
  => /\ pure.out = [feedId |-> T.abc, xsecToken |-> T.T1]
     /\ Len(pure.call) = 1
     /\ DOMAIN pure.call[1] = {"feed_id", "xsec_token"}
     /\ pure.call[1].feed_id = T.abc /\ pure.call[1].xsec_token = T.T1

\* C15: the images of a Post have pairwise distinct ids and stand in the order of
\* their descriptors in the tool response.
C15_ImageIdsDistinctInOrder ==
  pure.fn = "normalizeImages" =>
    \A a, b \in 1..Len(pure.out) : a < b =>
      /\ pure.out[a].id # pure.out[b].id
      /\ pure.out[a].from < pure.out[b].from

\* three descriptors of which the middle one is dropped
C15_Witness ==
  /\ pure.fn = "normalizeImages"
  /\ Len(pure.arg) = 3
  /\ Len(pure.out) = 2
  /\ pure.out[2].from = 3

\* C19: extractFirstHttpsUrl returns null when the input holds no lower-case
\* "https://", or when nothing is left after it once the text is cut at the first
\* whitespace or hard-stop character and its trailing punctuation is removed; otherwise
\* it returns the text from the first "https://" up to that cut without the trailing
\* punctuation, and the result starts with "https://".
C19_FirstHttpsUrl ==
  pure.fn = "extractFirstHttpsUrl" =>
    LET text == pure.arg
        Least(S) == CHOOSE x \in S : \A y \in S : x <= y
        Greatest(S) == CHOOSE x \in S : \A y \in S : x >= y
        occ  == {i \in 1..Len(text) : StartsAt(text, T.https, i)}
    IN IF occ = {} THEN pure.out = NullText
       ELSE LET idx   == Least(occ)
                stops == {j \in idx..Len(text) :
                            text[j] \in Whitespace \cup HARD_STOP_CHARS}
                stop  == IF stops = {} THEN Len(text) + 1 ELSE Least(stops)
                last  == Greatest({j \in idx..(stop - 1) :
                                     text[j] \notin TRAILING_TRIM_CHARS})
            IN IF last = idx + Len(T.https) - 1 THEN pure.out = NullText
               ELSE /\ pure.out = SubSeq(text, idx, last)
                    /\ StartsAt(pure.out, T.https, 1)

\* an input with an upper-case and a lower-case prefix and punctuation to trim
C19_Witness ==
  /\ pure.fn = "extractFirstHttpsUrl"
  /\ pure.arg = T.HTTPS \o T.https \o <<"a", ".">>
  /\ pure.out = T.https \o <<"a">>

-----------------------------------------------------------------------------
(* Tool Client: the tool-call phase of one getPost (part_001 lines 335-408), one
   action per settled callTool request *)

\* the argument keys callToolWithFallbackArgs tries in turn (line 192)
Candidates == <<"url", "shareUrl", "link", "sourceUrl">>

InitToolCall ==
  tc = [pc |-> "idle", explicit |-> FALSE, tool |-> "", tools |-> <<>>, redirected |-> FALSE,
        stage |-> 0, cur |-> "", url |-> "", cand |-> 0,
        pending |-> 0, log |-> <<>>, discs |-> 0, connects |-> 0,
        detected |-> "", outcome |-> "", err |-> [text |-> "", tool |-> "", cause |-> ""],
        nf |-> FALSE, first |-> "", noClient |-> FALSE]

\* client.callTool({ name, arguments }) under withTimeout: the request is sent and
\* awaited; pending counts the requests sent and not settled
Issue(t, stage, name, url) ==
  LET k == IF name = "get_feed_detail" THEN 0 ELSE IF t.pc = "call" /\ t.stage = stage THEN t.cand + 1 ELSE 1
  IN [t EXCEPT !.pc = "call", !.stage = stage, !.cur = name, !.url = url, !.cand = k,
               !.pending = @ + 1,
               !.log = Append(@, [stage |-> stage, tool |-> name, url |-> url,
                                  key |-> IF k = 0 THEN "feed_id" ELSE Candidates[k],
                                  pending |-> t.pending])]

\* a getPost that reconnects after every thrown tool call
ReconnectsAlways(stage) == stage \in {1, 2}

\* the catch of lines 349-371 is entered by a throw of the first call only
Reconnects(stage) == stage = 1

\* a getPost that goes on to the alternate tool after the original-URL retry as well
TriesAlternateAfterRetry(t, nf) == ~t.explicit /\ nf

\* the condition of the alternate-tool fallback (line 384)
TriesAlternate(t, nf) == ~t.explicit /\ t.tool = "get_feed_detail" /\ nf

\* getPost reaches line 335 with the tool name chosen (lines 320-333): name is
\* cfg.mcp.toolName, tools what listTools() reports, redirected whether
\* finalUrl # sourceUrl
ToolCall(name, tools, redirected) ==
  /\ tc.pc = "idle"
  /\ name # "" \/ detectToolName(tools) # ""
  /\ LET tool == IF name # "" THEN name ELSE detectToolName(tools)
     IN tc' = Issue([tc EXCEPT !.explicit = name # "", !.tool = tool, !.tools = tools,
                               !.redirected = redirected, !.connects = 1,
                               !.detected = IF name = "" THEN tool ELSE ""],
                    1, tool, "final")
  /\ UNCHANGED <<coreVars, mcp, oai, pure, rn>>

\* the awaited request settles: res is "ok" (a result), "isError" (a result with
\* isError), "throw" (the request rejected) or "timeout" (the timer of withTimeout
\* won the race, lines 11-17: the request itself is not cancelled and stays pending).
\* nf is looksLikeNotFoundError(msg); gc whether a getClient() needed next succeeds.
CallSettled(res, nf, gc) ==
  /\ tc.pc = "call"
  /\ LET t  == [tc EXCEPT !.pending = IF res = "timeout" THEN @ ELSE @ - 1]
         Throw(u, text, cause) ==
           [u EXCEPT !.pc = "done", !.outcome = "error",
                     !.err = [text |-> text, tool |-> IF text = "Fetch failed" THEN u.tool ELSE "",
                              cause |-> cause]]
         \* lines 401-407: the first error text followed by the hint
         Hint(u) == Throw(u, "msg+hint", u.first)
         alt == detectUrlToolFallbackName(t.tools)
         \* lines 384-399
         Alternate(u) ==
           IF TriesAlternate(u, u.nf) /\ gc /\ alt # ""
           THEN Issue(u, 4, alt, "final")
           ELSE Hint([u EXCEPT !.noClient = TriesAlternate(u, u.nf) /\ ~gc])
         \* lines 373-383, entered with a toolResult that has isError
         IsError(u) ==
           IF u.tool # "get_feed_detail" /\ u.redirected /\ u.nf /\ gc
           THEN Issue(u, 3, u.tool, "source")
           ELSE Alternate(u)
     IN tc' =
        IF res \in {"throw", "timeout"}
        THEN IF t.cur # "get_feed_detail" /\ t.cand < Len(Candidates)
             THEN Issue(t, t.stage, t.cur, t.url)
             ELSE IF t.stage \in {1, 2} /\ Reconnects(t.stage)
             \* lines 353-354: disconnect closes the transport, which ends the requests
             \* sent over it, then getClient()
             THEN LET u == [t EXCEPT !.discs = @ + 1, !.pending = 0, !.connects = @ + 1,
                                     !.detected = ""]
                  IN IF gc THEN Issue(u, 2, t.tool, "final")
                     ELSE Throw(u, "Fetch failed", "connect")
             ELSE IF t.stage \in {1, 2} THEN Throw(t, "Fetch failed", res)
             \* lines 380-382: the original-URL retry threw, the first result stands
             ELSE IF t.stage = 3 THEN Alternate(t)
             ELSE Hint(t)
        ELSE IF res = "ok"
        THEN [t EXCEPT !.pc = "done", !.outcome = "ok",
                       !.detected = IF t.stage = 4 THEN t.cur ELSE @]
        ELSE IF t.stage \in {1, 2}
        THEN IsError([t EXCEPT !.nf = nf, !.first = IF nf THEN "notFound" ELSE "other"])
        ELSE IF t.stage = 3 THEN Alternate(t)
        ELSE Hint(t)
  /\ UNCHANGED <<coreVars, mcp, oai, pure, rn>>

\* a request abandoned by withTimeout settles: nobody awaits it
AbandonedSettles ==
  /\ tc.pending > (IF tc.pc = "call" THEN 1 ELSE 0)
  /\ tc' = [tc EXCEPT !.pending = @ - 1]
  /\ UNCHANGED <<coreVars, mcp, oai, pure, rn>>

ToolCallNext ==
  \/ \E name \in {"", "get_feed_detail", "get_content"},
        tools \in {ServerTools, <<"get_feed_detail">>, <<"get_content">>},
        redirected \in BOOLEAN : ToolCall(name, tools, redirected)
  \/ \E res \in {"ok", "isError", "throw", "timeout"}, nf \in BOOLEAN, gc \in BOOLEAN :
        CallSettled(res, nf, gc)
  \/ AbandonedSettles

-----------------------------------------------------------------------------
(* Tool Client: the cache under a long sequence of getPost calls, one after another *)

\* a whole getPost(sourceUrl) that misses the cache, fetches and stores (lines 312-319
\* and 410-421).  sourceUrl is the key of the first Map entry when first holds, and
\* otherwise a URL never fetched before, named by the call's number.
GetPostMiss(first) ==
  /\ xhs.opCounter < MaxCacheOps
  /\ first => xhs.cache # <<>>
  /\ LET n  == xhs.opCounter + 1
         c1 == IF n % 12 = 0 THEN pruneCache(xhs.cache, now) ELSE xhs.cache
         u  == IF first THEN xhs.cache[1].key ELSE n
     IN /\ ~CacheHit(c1, u, now)
        /\ xhs' = Store([xhs EXCEPT !.opCounter = n, !.cache = c1],
                        [InitOp EXCEPT !.url = u, !.final = u], 0)
  /\ UNCHANGED <<inFlightRequests, ops, now, faults, hist, ret, mcp, oai, pure, tc, rn>>

CacheNext ==
  \/ \E first \in BOOLEAN : GetPostMiss(first)
  \/ Tick

-----------------------------------------------------------------------------
(* Renderer (renderer.js): the click handlers of Fetch, Generate and Clear, one action
   per await of a bridge call. Request ids are the values of requestSeq. *)

\* the end of both click handlers for handler k of the given kind: catch (when err is
\* not ""), then finally; both return at once when the session token has changed
Finally(r, k, err) ==
  LET hk == r.h[k]
      r0 == [r EXCEPT !.h[k].pc = "done"]
      r1 == IF err = "error" THEN [r0 EXCEPT !.status = "Error"] ELSE r0
  IN IF r.sessionToken # hk.token THEN r0
     ELSE IF hk.kind = "fetch"
     THEN [r1 EXCEPT !.currentFetchRequestId = IF @ = k THEN 0 ELSE @, !.fetching = FALSE]
     ELSE [r1 EXCEPT !.currentGenerateRequestId = IF @ = k THEN 0 ELSE @,
                     !.generating = FALSE]

\* a click on Fetch or Generate, up to the bridge call (lines 770-778, 819-832); valid
\* is whether validateUrl accepts the text of the URL field
Click(k, kind, valid) ==
  /\ k = rn.requestSeq + 1
  /\ kind = "fetch" => ~rn.fetching /\ ~rn.generating
  /\ kind = "generate" => ~rn.generating /\ rn.post # 0 /\ valid
  /\ LET r0 == [rn EXCEPT !.requestSeq = k,
                          !.h[k] = [kind |-> kind, token |-> rn.sessionToken, pc |-> "call"]]
     IN rn' = IF kind = "generate"
              THEN [r0 EXCEPT !.currentGenerateRequestId = k, !.generating = TRUE,
                              !.status = "Generating"]
              ELSE IF valid
              THEN [r0 EXCEPT !.currentFetchRequestId = k, !.fetching = TRUE,
                              !.status = "Fetching"]
              ELSE Finally([r0 EXCEPT !.currentFetchRequestId = k], k, "error")
  /\ UNCHANGED <<coreVars, mcp, oai, pure, tc>>

\* fetchPost or generateRecipe settled: resolved, rejected with an abort error or
\* rejected with another error (lines 779-787 and 799-808, 833-849)
Returned(k, res) ==
  /\ rn.h[k].pc = "call"
  /\ LET hk == rn.h[k]
         cur == IF hk.kind = "fetch" THEN rn.currentFetchRequestId
                ELSE rn.currentGenerateRequestId
     IN rn' = IF res # "ok" THEN Finally(rn, k, res)
              ELSE IF rn.sessionToken # hk.token \/ cur # k THEN Finally(rn, k, "")
              ELSE IF hk.kind = "generate"
              THEN Finally([rn EXCEPT !.output = k, !.status = "Completed"], k, "")
              ELSE [rn EXCEPT !.post = k, !.status = "Downloading", !.h[k].pc = "previews"]
  /\ UNCHANGED <<coreVars, mcp, oai, pure, tc>>

\* the rest of the Fetch handler, await by await: getImagePreviews of
\* downloadPreviewsForCurrentPost (lines 635-646) and the status line that follows it
\* (787-788), saveConfig (798), getConfig of refreshConfig (160-171, 799)
FetchContinues(k, ok) ==
  /\ rn.h[k].pc \in {"previews", "saving", "refreshing"}
  /\ rn' = CASE rn.h[k].pc = "previews" ->
                  [rn EXCEPT !.previews = IF ok THEN k ELSE @, !.status = "Fetched",
                             !.h[k].pc = "saving"]
             [] rn.h[k].pc = "saving" ->
                  IF ok THEN [rn EXCEPT !.h[k].pc = "refreshing"]
                  ELSE Finally(rn, k, "error")
             [] OTHER ->
                  IF ok THEN Finally([rn EXCEPT !.config = k], k, "")
                  ELSE Finally(rn, k, "error")
  /\ UNCHANGED <<coreVars, mcp, oai, pure, tc>>

\* the Clear handler, await by await (lines 889-923): the click, confirmed in the
\* dialog when a request is running, increments sessionToken and calls
\* abortAllRequests; when that settled clearSession is called; when that settled the
\* state and the UI fields are reset
Clear ==
  /\ rn.clearPc = "idle" => rn.clears < MaxClears
  /\ rn' = CASE rn.clearPc = "idle" ->
                  [rn EXCEPT !.sessionToken = @ + 1, !.clears = @ + 1,
                             !.clearPc = "aborting"]
             [] rn.clearPc = "aborting" -> [rn EXCEPT !.clearPc = "clearing"]
             [] OTHER ->
                  [rn EXCEPT !.post = 0, !.previews = 0, !.output = 0, !.status = "Idle",
                             !.currentFetchRequestId = 0, !.currentGenerateRequestId = 0,
                             !.fetching = FALSE, !.generating = FALSE, !.clearPc = "idle"]
  /\ UNCHANGED <<coreVars, mcp, oai, pure, tc>>

-----------------------------------------------------------------------------
(* Properties of generateRecipe, under GenerateSpec *)

\* C13: an image whose download exceeds the byte ceiling (and that
\* downloadImageViaNet does not deliver either) is reported in meta.images.failures
\* with reason download_failed and does not end the request; when every other image
\* was attached, the request goes on to the model with all of them and that single
\* failure.
C13_OversizeReported ==
  \A i \in Ops : ops[i].kind = "generate" =>
    LET o == ops[i] IN
    \A k \in 1..Len(o.dl) : o.dl[k].f = "oversize" /\ o.dl[k].n # "image" =>
      /\ o.dl[k].res = "download_failed"
      /\ o.idx > k
      /\ (/\ Len(o.dl) = Len(o.imgs)
          /\ \A m \in 1..Len(o.dl) : m # k => o.dl[m].res = "attached")
         => /\ o.attached = Len(o.imgs) - 1
            /\ o.failures = <<"download_failed">>
            /\ o.err # "download"
            /\ o.gpc \in {"model", "fallback", "done"}

C13_Witness ==
  \E i \in Ops :
    /\ ops[i].outcome = "ok"
    /\ Len(ops[i].imgs) = 2
    /\ \E k \in 1..2 : ops[i].dl[k].f = "oversize" /\ ops[i].dl[k].n = "oversize"
    /\ ops[i].attached = 1
    /\ ops[i].failures = <<"download_failed">>

\* C14: a download that fails for a reason other than the request's cancellation (HTTP
\* error, unexpected content type, oversize, per-image timeout) never makes
\* generateRecipe fail: the image is recorded and the loop goes on.
C14_DownloadFailureNeverFatal ==
  \A i \in Ops : ops[i].kind = "generate" =>
    \A k \in 1..Len(ops[i].dl) :
      ops[i].dl[k].f \in FetchOutcomes \ {"image"} =>
        /\ ops[i].dl[k].res # "threw"
        /\ ops[i].err # "download"

\* C18: once the cancellation signal of a generate request has fired, the request has
\* no download in progress and starts none.
C18_AbortStopsDownloads ==
  \A i \in Ops : ops[i].kind = "generate" /\ ops[i].aborted =>
    /\ ~ops[i].dlio
    /\ ops[i].gpc \notin {"download", "net"}

\* a request cancelled while downloadImageViaNet was at work
C18_Witness ==
  \E i \in Ops :
    /\ ops[i].kind = "generate" /\ ops[i].aborted
    /\ ops[i].idx <= Len(ops[i].imgs)
    /\ ops[i].f # ""

\* C39: a generateRecipe that returns a result reports, in meta.images, a number of
\* requested images equal to the number attached plus the number of failures; while
\* the loop runs the same holds of the images it has gone through.
C39_RequestedIsAttachedPlusFailures ==
  \A i \in Ops :
    ops[i].kind = "generate" =>
      /\ ops[i].outcome = "ok" => Len(ops[i].imgs) = ops[i].attached + Len(ops[i].failures)
      /\ ops[i].gpc \in {"download", "net"} =>
           ops[i].idx - 1 = ops[i].attached + Len(ops[i].failures)

\* a result for two requested images, one attached and one that failed preprocessing
C39_Witness ==
  /\ ops[1].kind = "generate" /\ ops[1].outcome = "ok"
  /\ Len(ops[1].imgs) = 2 /\ ops[1].attached = 1
  /\ ops[1].failures = <<"preprocess_failed">>

-----------------------------------------------------------------------------
(* Properties of the Request Coordinator and the Tool Client, under Spec *)

Racing(i) == ops[i].hpc = "racing"
Quiescent == \A i \in Ops : ~Racing(i) /\ ops[i].gpc \in {"none", "done"}

\* C1: a fetchPost cancelled before its tool call resolved settles as aborted, and the
\* next getPost for the same URL (the one whose ghost field after names the cancelled
\* fetch) neither gets the Post the cancelled fetch cached, nor waits on a connect
\* attempt the cancelled fetch started, nor uses a connection the cancelled fetch
\* established.
C1_CancelledFetchLeavesNothing ==
  /\ \A f \in Ops : ops[f].aborted => ops[f].hpc = "done" /\ ops[f].outcome = "aborted"
  /\ \A g \in Ops :
       ops[g].kind = "fetch" /\ ops[g].after # 0 =>
         /\ ops[g].got # ops[g].after
         /\ ~(ops[g].gpc = "connect" /\ xhs.connecting.by = ops[g].after)
         /\ ~(/\ ops[g].client # 0
              /\ ops[g].client = xhs.connected.id
              /\ xhs.connected.by = ops[g].after)

\* C2: abortRequest(id) never makes another operation fail: as long as request ids
\* were never shared, no operation ends with the error "MCP connection was reset
\* during connect" because the connect attempt it was waiting on was made stale by
\* the disconnect of an abortRequest aimed at a different operation.
C2_AbortSparesOthers ==
  ~hist.dup =>
    \A i \in Ops :
      ops[i].outcome = "error" /\ ops[i].err = "reset" =>
        ~(ops[i].killKind \in {"abort", "afterAbort"} /\ ops[i].killOp # i)

\* C3: abortAllRequests() returns the number of registered requests, and each of the
\* operations that were registered has settled with the outcome aborted.
C3_AbortAllSettlesAll ==
  /\ ret.call = "abortAll" =>
       /\ ret.aborted = Cardinality(ret.were)
       /\ \A j \in ret.were : ops[j].hpc = "done" /\ ops[j].outcome = "aborted"
  /\ \A j \in Ops : ops[j].aborted => ops[j].hpc = "done" /\ ops[j].outcome = "aborted"

\* C3, its case: abortAll has just returned 2, for a fetch and a generate
C3_Witness ==
  /\ ret.call = "abortAll"
  /\ ret.aborted = 2
  /\ \E i \in ret.were, j \in ret.were : ops[i].kind = "fetch" /\ ops[j].kind = "generate"

\* C4: after abortAllRequests() followed by clearSession(), once every handler and
\* every getPost has ended, the Tool Client has no connection, no connect attempt in
\* flight and an empty cache.
C4_ClearedAfterReset ==
  hist.phase = "cleared" /\ Quiescent =>
    /\ xhs.connected = NoConn
    /\ xhs.connecting = NoAttempt
    /\ xhs.cache = <<>>

\* C5: every entry of the in-flight table belongs to a handler that is still running,
\* so the table is empty whenever no handler is running.
C5_TableHoldsOnlyRunning ==
  /\ \A id \in DOMAIN inFlightRequests : Racing(inFlightRequests[id].ctl)
  /\ (\A i \in Ops : ~Racing(i)) => DOMAIN inFlightRequests = {}

\* C5, its case: both operations have ended, one cancelled and one failed
C5_Witness ==
  /\ \A i \in Ops : ops[i].hpc = "done"
  /\ \E i \in Ops, j \in Ops : ops[i].outcome = "aborted" /\ ops[j].outcome = "error"
  /\ DOMAIN inFlightRequests = {}

\* C6: no two running operations share a request id, and each running operation is
\* the one the table holds under its request id, so that abortRequest(id) reaches it.
C6_OneEntryPerRunning ==
  /\ \A i \in Ops, j \in Ops : Racing(i) /\ Racing(j) /\ i # j => ops[i].rid # ops[j].rid
  /\ \A i \in Ops :
       Racing(i) => /\ ops[i].rid \in DOMAIN inFlightRequests
                    /\ inFlightRequests[ops[i].rid].ctl = i

\* C9: a getPost returns from the cache, without resolving the URL, connecting or
\* calling a tool, exactly when the cache held an entry under the requested URL that
\* was younger than the TTL; and every entry is stored under the URL its getPost was
\* asked for, not under the resolved one.
C9_CacheHitIffFresh ==
  /\ \A i \in Ops :
       ops[i].kind = "fetch" =>
         /\ ops[i].fresh <=> ~ops[i].didIO
         /\ ops[i].fresh => ops[i].hpc = "done" /\ ops[i].outcome = "ok" /\ ops[i].got # 0
  /\ \A k \in 1..Len(xhs.cache) : xhs.cache[k].key = xhs.cache[k].src

\* C9, its case: a getPost of the short link was answered with the Post another
\* getPost stored under that short link, whose resolved URL differs
C9_Witness ==
  \E i \in Ops :
    /\ ops[i].fresh
    /\ ops[i].got \notin {0, i}
    /\ \E k \in 1..Len(xhs.cache) :
         xhs.cache[k].key = "s" /\ xhs.cache[k].final = "f" /\ xhs.cache[k].by = ops[i].got

\* C11: a fallback call is made at most once per request, only after the primary
\* model of the gpt-5 family failed with a blank/incomplete-output failure, and always
\* then; a request that succeeded after a fallback call returns the fallback's text.
C11_FallbackOnlyAfterBlank ==
  \A i \in Ops :
    ops[i].kind = "generate" =>
      /\ ops[i].fb <= 1
      /\ ops[i].fb = 1 <=> ops[i].g5 /\ ops[i].cls = "blank"
      /\ ops[i].fb = 1 /\ ops[i].outcome = "ok" => ops[i].model = "fallback"

\* C27: a refusal of the model ends the generate request with an error after the call
\* that produced it: no fallback model is called for a request whose primary call
\* was refused.
C27_RefusalIsTerminal ==
  \A i \in Ops :
    ops[i].kind = "generate" /\ ops[i].cls = "refusal" =>
      ops[i].fb = 0 /\ ops[i].gpc # "fallback"

\* C28: once the controller of a registered fetch or generate request has been
\* aborted, the request settles as aborted without waiting for anything downstream:
\* it is settled in the very step of the abort, whatever the tool call, the connect,
\* the download or the completion call is doing, the teardown its handler asks for
\* finds no connection left to wait on, and nothing that responds later changes the
\* outcome.
C28_AbortSettles ==
  /\ [](\A j \in Ops : ops[j].aborted =>
          ops[j].hpc = "done" /\ ops[j].outcome = "aborted"
          /\ \A id \in DOMAIN inFlightRequests : inFlightRequests[id].ctl # j)
  /\ [][\A id \in DOMAIN inFlightRequests :
          LET j == inFlightRequests[id].ctl
          IN (id \notin DOMAIN inFlightRequests' /\ ops'[j].outcome = "aborted" /\ ~ops[j].aborted)
             => /\ ops'[j].aborted /\ ops'[j].hpc = "done"
                /\ ops[j].kind = "fetch" => xhs'.connected.id = 0]_vars

\* a fetch settled as aborted while its tool call is still unanswered, and a generate
\* settled as aborted too
C28_Witness ==
  /\ ops[1].kind = "fetch" /\ ops[1].aborted /\ ops[1].gpc = "call"
  /\ ops[1].outcome = "aborted"
  /\ ops[2].kind = "generate" /\ ops[2].aborted /\ ops[2].outcome = "aborted"

\* C31: the step of clearSession() leaves the Tool Client with an empty cache, no
\* detected tool name and no connection, makes a connect attempt in flight stale, and
\* changes neither the in-flight table nor any request's cancellation state.
C31_ClearSessionFrame ==
  [][ClearSession =>
       /\ xhs'.cache = <<>>
       /\ xhs'.detectedToolName = ""
       /\ xhs'.connected = NoConn /\ xhs'.connectedKey = ""
       /\ xhs.connecting.id # 0 =>
            xhs'.connecting.id = xhs.connecting.id /\ IsStale(xhs'.connecting, xhs')
       /\ inFlightRequests' = inFlightRequests
       /\ \A j \in Ops : ops'[j].aborted = ops[j].aborted /\ ops'[j].hpc = ops[j].hpc]_vars

\* a session was cleared while a connect attempt was in flight and a request that
\* has not been cancelled is still registered
C31_Witness ==
  /\ xhs.connecting.id # 0 /\ xhs.connecting.killKind = "clear"
  /\ xhs.cache = <<>>
  /\ \E id \in DOMAIN inFlightRequests :
       LET j == inFlightRequests[id].ctl IN ~ops[j].aborted /\ ops[j].hpc = "racing"

\* C38: a getPost that fails, for whichever reason, adds no entry to the cache and
\* refreshes none: every entry of the cache after the step in which a getPost ended
\* without a Post of its own was in the cache before it. More generally, an entry is
\* written only in the step in which the tool call of its getPost succeeded.
C38_FailedGetPostLeavesCache ==
  [][LET Written == {k \in 1..Len(xhs'.cache) :
                       \A m \in 1..Len(xhs.cache) : xhs.cache[m] # xhs'.cache[k]}
     IN /\ \A i \in Ops :
             /\ ops[i].kind = "fetch" /\ ops[i].gpc \notin {"none", "done"}
             /\ ops'[i].gpc = "done" /\ ops'[i].got # i
             => Written = {}
        /\ \A k \in Written :
             LET i == xhs'.cache[k].by
             IN ops[i].gpc = "call" /\ ops'[i].gpc = "done" /\ ops'[i].got = i]_vars

\* a getPost ended with a tool error two ticks after another one had stored its Post,
\* and the entry still carries the timestamp of the first
C38_Witness ==
  /\ ops[2].kind = "fetch" /\ ops[2].gpc = "done" /\ ops[2].didIO
  /\ ops[2].outcome = "error" /\ ops[2].err = "toolError"
  /\ Len(xhs.cache) = 1 /\ xhs.cache[1].by = 1 /\ xhs.cache[1].ts = 0 /\ now = MaxNow

-----------------------------------------------------------------------------
(* Properties of the Process Launcher, under LauncherSpec *)

Active(r) == mcp.runs[r].pc \notin {"none", "done"}

\* C7: at most one ensureStarted attempt is in progress; every call that has not
\* returned holds the promise of that attempt; a call returns the outcome of the
\* attempt it joined; and an attempt spawns at most one process.
C7_EnsureStartedCoalesced ==
  /\ Cardinality({r \in Ensures : Active(r)}) <= 1
  /\ \A c \in Ensures :
       mcp.calls[c].st = "pending" =>
         mcp.calls[c].run = mcp.ensurePromise /\ Active(mcp.calls[c].run)
  /\ \A c \in Ensures :
       mcp.calls[c].st = "returned" => mcp.calls[c].result = mcp.runs[mcp.calls[c].run].result
  /\ \A r \in Ensures : mcp.runs[r].spawns <= 1

\* C7, its case: two calls wait on one attempt, which has spawned one process
C7_Witness ==
  /\ mcp.calls[1].st = "pending" /\ mcp.calls[2].st = "pending"
  /\ mcp.calls[1].run = mcp.calls[2].run
  /\ mcp.runs[mcp.calls[1].run].spawns = 1
  /\ mcp.spawned = 1

\* the attempt got as far as the health probe of line 174: HTTP transport, an
\* executable path that is set and exists on disk, an endpoint URL
ReachedProbe(r) ==
  /\ mcp.runs[r].cfg.transport = "http"
  /\ mcp.runs[r].cfg.exePath # ""
  /\ mcp.runs[r].cfg.httpUrl # ""
  /\ mcp.runs[r].exeOk

\* what C8 promises of attempt r
ReadyUntouched(r) ==
  /\ mcp.runs[r].result.state = "ready"
  /\ mcp.runs[r].spawns = 0
  /\ mcp.runs[r].kills = 0

\* the attempt has an endpoint to probe: HTTP transport and an endpoint URL
HasEndpoint(r) ==
  mcp.runs[r].cfg.transport = "http" /\ mcp.runs[r].cfg.httpUrl # ""

\* C8 as stated: an attempt during which its endpoint answered the health probe
\* throughout ends with status ready and has neither spawned nor killed a process.
C8_HealthyMeansReady ==
  \A r \in Ensures :
    mcp.runs[r].pc = "done" /\ mcp.runs[r].healthy /\ HasEndpoint(r) => ReadyUntouched(r)

\* C8 amended: the same, for an attempt configured for HTTP transport with an
\* endpoint URL and an executable path that exists on disk.
C8_HealthyMeansReadyWhenConfigured ==
  \A r \in Ensures :
    mcp.runs[r].pc = "done" /\ mcp.runs[r].healthy /\ ReachedProbe(r) => ReadyUntouched(r)

\* C8, its case: such an attempt has returned while a child spawned earlier is
\* tracked and running
C8_Witness ==
  \E r \in Ensures :
    /\ mcp.runs[r].pc = "done" /\ mcp.runs[r].healthy /\ ReachedProbe(r)
    /\ mcp.child \in mcp.procs

C32_PortInUse ==
  [][\A r \in Ensures :
       LET pc == mcp.runs[r].pc
           to == mcp'.runs[r].pc
       IN /\ pc = "port" /\ to # pc /\ mcp.endpoint \in {"busy", "up"} =>
               to = "portProbe" /\ mcp'.spawned = mcp.spawned
          /\ pc \in {"portProbe", "portSleep"} =>
               /\ mcp'.spawned = mcp.spawned
               /\ to \in {"portProbe", "portSleep", "done"}
          /\ pc = "portSleep" /\ to = "done" =>
               /\ mcp'.status.state = "error" /\ mcp'.status.code = "port_in_use"
               /\ mcp'.runs[r].result = mcp'.status
               /\ mcp'.runs[r].spawns = 0
               /\ mcp'.child = 0
          /\ pc = "portProbe" /\ to = "done" =>
               mcp'.status.state = "ready" /\ mcp.endpoint = "up"]_vars

\* a second attempt found the port taken by something that does not answer: it
\* killed the child of the first attempt and ended with port_in_use
C32_Witness ==
  /\ mcp.runs[2].pc = "done"
  /\ mcp.runs[2].result.code = "port_in_use"
  /\ mcp.runs[2].kills = 1 /\ mcp.runs[2].spawns = 0
  /\ mcp.endpoint = "busy"

\* C33: the launcher's status changes only while an ensureStarted attempt is in
\* progress: a step that changes it is a step of an attempt or is taken while an
\* attempt is running.
C33_StatusChangesOnlyInAttempt ==
  [][mcp'.status # mcp.status =>
       \E r \in Ensures : Active(r) \/ mcp'.runs[r] # mcp.runs[r]]_vars

\* C34: every ensureStarted attempt ends; at its return the status is the one it
\* returns and is disabled, needs_path, ready or error; it ends ready only by a probe
\* the endpoint answered in that attempt; and when the startup polling runs out it
\* ends with error, code startup_timeout.
C34_AttemptEnds ==
  /\ \A r \in Ensures : Active(r) ~> ~Active(r)
  /\ [][\A r \in Ensures :
          Active(r) \/ mcp.runs[r].pc = "none" =>
            /\ mcp'.runs[r].pc = "done" =>
                 /\ mcp'.runs[r].result = mcp'.status
                 /\ mcp'.status.state \in {"disabled", "needs_path", "ready", "error"}
                 /\ mcp'.status.state = "ready" =>
                      mcp.endpoint = "up" /\ mcp.runs[r].pc \in {"probe", "portProbe", "poll"}
                 /\ mcp.runs[r].pc = "pollSleep" =>
                      mcp'.status.state = "error" /\ mcp'.status.code = "startup_timeout"
            /\ mcp.runs[r].pc \in {"poll", "pollSleep"} =>
                 mcp'.runs[r].pc \in {"poll", "pollSleep", "done"}]_vars

\* an attempt spawned a child, polled to the end of the startup window and returned
\* startup_timeout
C34_Witness ==
  /\ mcp.runs[1].pc = "done"
  /\ mcp.runs[1].spawns = 1
  /\ mcp.runs[1].result.code = "startup_timeout"
  /\ mcp.status = mcp.runs[1].result

\* C35: once shutdown() was called, and until ensureStarted is called again, no child
\* the launcher spawned is running or tracked, also when an attempt was in progress
\* at the time of the call.
C35_NoChildAfterShutdown ==
  mcp.shut => mcp.child = 0 /\ mcp.procs = {}

\* C35, the part that is settled when shutdown() returns: the child tracked at the
\* call is killed and forgotten, children the launcher no longer tracks were killed
\* before, and a second shutdown() right after the first changes nothing.
C35_ShutdownStopsTracked ==
  /\ [](mcp.procs \subseteq {mcp.child})
  /\ [][Shutdown =>
          /\ mcp'.child = 0 /\ mcp'.procs = {}
          /\ mcp'.status = mcp.status /\ mcp'.runs = mcp.runs
          /\ mcp.shut /\ mcp.child = 0 => mcp' = mcp]_vars

\* shutdown() was called while an attempt with a running child was polling
C35_Witness ==
  /\ mcp.shut /\ mcp.spawned = 1 /\ mcp.procs = {} /\ mcp.child = 0
  /\ mcp.runs[1].pc = "pollSleep" /\ mcp.runs[1].spawns = 1 /\ mcp.status.state = "starting"

\* C36: once isReady has reported, the session its health check opened is closed,
\* whether the check succeeded, failed or timed out.
C36_NoSessionAfterReport ==
  mcp.sessions = 0

\* C37: a child the launcher tracks is still running, so that an attempt that finds a
\* child tracked for its executable path and spawns nothing is waiting for a live process.
C37_TrackedChildRuns ==
  /\ mcp.child # 0 => mcp.child \in mcp.procs
  /\ \A r \in Ensures :
       mcp.runs[r].pc \in {"poll", "pollSleep"} /\ mcp.runs[r].spawns = 0 /\ mcp.endpoint = "down"
         => mcp.procs # {}

-----------------------------------------------------------------------------
(* Properties of the Completion Client, under CompletionSpec *)

\* C10: when the API answers the first three calls of a Responses-style request with
\* the "unsupported parameter" 400 that style's cascade looks for and would answer
\* the fourth with text, the call returns the text of variant 4 after exactly four
\* API calls.
C10_FourthVariantReturned ==
  /\ oai.pc = "done"
  /\ oai.g5
  /\ \A k \in 1..3 : oai.script[k] \in Unsupported /\ NextVariant(oai.g5, oai.script[k])
  /\ oai.script[4] = "text"
  => oai.result = "text" /\ oai.at = 4 /\ oai.calls = 4

\* C16: generateRecipeMarkdown runs its request again at most twice, and only after a
\* failure with status 429 or 5xx; every other failure ends the call with that error
\* after the attempt it occurred in, and so does the failure of the third attempt.
C16_BoundedRetries ==
  LET last == oai.script[oai.calls]
      LastRetryable == Status(last) = 429 \/ Status(last) \in 500..599
  IN /\ oai.reruns <= 2
     /\ \A reply \in oai.why : Status(reply) = 429 \/ Status(reply) \in 500..599
     /\ oai.pc = "sleep" => LastRetryable /\ oai.attempt <= 2
     /\ oai.pc = "done" /\ oai.result = "error" =>
          /\ oai.err = ErrorOf(oai.g5, last)
          /\ ~LastRetryable \/ oai.attempt = 3
     /\ oai.pc = "call" /\ oai.calls > 0 =>
          \/ LastRetryable /\ oai.v = 1
          \/ last \in Unsupported /\ oai.v > 1

\* three attempts failed with 429 or 5xx and the last error came out
C16_Witness ==
  /\ oai.pc = "done"
  /\ oai.result = "error"
  /\ oai.reruns = 2
  /\ oai.attempt = 3
  /\ oai.why = {"rate", "server"}
  /\ oai.err = "server"

\* C17: once the cancellation signal of a generate request has fired, no further
\* completion-API call is issued for it: no next variant and no retry after backoff.
C17_NoCallAfterCancel ==
  oai.cancelled => oai.after = 0

C26_EmptyOutputTriesNextVariant ==
  oai.g5 /\ oai.pc = "done" /\ oai.result = "error" /\ oai.err = "blank"
  => oai.v = Len(ResponsesVariants)

-----------------------------------------------------------------------------
(* Properties of the tool-call phase of getPost, under ToolCallSpec *)

\* C22: within one getPost at most one tool call is outstanding at any time: every
\* further attempt (next candidate key, reconnect retry, original-URL retry,
\* fallback tool) is issued only when no earlier request is still pending, also
\* after a per-attempt timeout.
C22_OneOutstandingCall ==
  /\ tc.pending <= 1
  /\ \A k \in 1..Len(tc.log) : tc.log[k].pending = 0

\* C23: a thrown tool call is followed by one teardown of the connection, one
\* getClient() and the same call (same tool, same URL) once more; when the repeat
\* throws too, getPost fails with an error that names the tool and the cause and
\* has not reconnected a second time.
C23_OneReconnectRetry ==
  LET at(n) == {k \in 1..Len(tc.log) : tc.log[k].stage = n}
  IN /\ tc.discs <= 1
     /\ tc.discs = 1 /\ at(2) # {} =>
          /\ at(1) # {}
          /\ \A k \in at(2) : tc.log[k].tool = tc.tool /\ tc.log[k].url = "final"
          /\ {tc.log[k].key : k \in at(2)} \subseteq {tc.log[k].key : k \in at(1)}
          /\ Cardinality(at(2)) <= Cardinality(at(1))
     /\ tc.pc = "done" /\ tc.err.text = "Fetch failed" =>
          /\ tc.discs = 1
          /\ tc.err.tool = tc.tool
          /\ tc.err.cause \in {"throw", "timeout", "connect"}
          /\ at(3) \cup at(4) = {}
     /\ tc.stage >= 2 /\ at(2) # {} => tc.discs = 1

\* the repeat threw as well: getPost failed naming the tool, after one reconnect
C23_Witness ==
  /\ tc.pc = "done"
  /\ tc.err = [text |-> "Fetch failed", tool |-> "get_content", cause |-> "timeout"]
  /\ tc.discs = 1
  /\ Len(tc.log) = 2 * Len(Candidates)

\* C24 as stated: a getPost without an explicit tool name that fails on a logical
\* error of the tool, where the server lists a URL-based tool and a client was
\* available, has attempted one alternate URL-based tool before failing.
C24_AlternateBeforeFailing ==
  (/\ tc.pc = "done" /\ tc.err.text = "msg+hint"
   /\ ~tc.explicit /\ ~tc.noClient
   /\ detectUrlToolFallbackName(tc.tools) # "")
  => \E k \in 1..Len(tc.log) : tc.log[k].stage = 4

\* C24, amended: the alternate URL-based tool is attempted exactly when the tool that
\* reported the logical error is the auto-detected get_feed_detail, the error text
\* looks like not-found and the server lists a URL-based tool; it is one tool, called
\* with the resolved URL, never together with the original-URL retry; and every
\* failure on a logical error carries the first error text followed by the hint.
C24_AlternateOnlyForFeedDetail ==
  LET at(n) == {k \in 1..Len(tc.log) : tc.log[k].stage = n}
      alt   == detectUrlToolFallbackName(tc.tools)
      may   == ~tc.explicit /\ tc.tool = "get_feed_detail" /\ tc.nf /\ alt # ""
  IN /\ at(4) # {} => /\ may
                      /\ at(3) = {}
                      /\ \A k \in at(4) : tc.log[k].tool = alt /\ tc.log[k].url = "final"
                      /\ Cardinality(at(4)) <= Len(Candidates)
     /\ tc.pc = "done" /\ tc.err.text = "msg+hint" =>
          /\ may /\ ~tc.noClient => at(4) # {}
          /\ tc.err.cause = tc.first /\ tc.first # ""

\* the alternate tool was attempted and failed too: the first error text and the hint
C24_Witness ==
  /\ tc.pc = "done" /\ tc.err = [text |-> "msg+hint", tool |-> "", cause |-> "notFound"]
  /\ \E k \in 1..Len(tc.log) : tc.log[k].stage = 4 /\ tc.log[k].tool = "get_content"

-----------------------------------------------------------------------------
(* Properties of the cache, under CacheSpec *)

\* C29: whenever a getPost that stored its result has returned, the cache holds at
\* most CACHE_MAX_ENTRIES entries.
C29_CacheBounded ==
  Len(xhs.cache) <= CACHE_MAX_ENTRIES

\* the 61st URL has been stored and the first one has made room for it
C29_Witness ==
  /\ Len(xhs.cache) = CACHE_MAX_ENTRIES
  /\ xhs.cache[1].key = 2
  /\ xhs.cache[CACHE_MAX_ENTRIES].key = CACHE_MAX_ENTRIES + 1

\* C30: an entry that leaves the cache because the size bound is exceeded has the
\* oldest timestamp of the entries present: no entry that stays is older.
C30_EvictsOldestTimestamp ==
  [][LET old == xhs.cache
         new == xhs'.cache
         evicted == {k \in 1..Len(old) :
                       IsLive(old[k], now) /\ CacheIndex(new, old[k].key) = 0}
     IN \A k \in evicted : \A m \in 1..Len(new) : old[k].ts <= new[m].ts]_vars

-----------------------------------------------------------------------------
(* Properties of the renderer, under RendererSpec *)

\* C40: once Clear was confirmed and sessionToken incremented, no continuation of a
\* Fetch or Generate handler started before it changes the renderer's state or the UI
\* fields: a step of a handler whose token is no longer the session token changes
\* nothing but that handler's own position.
C40_StaleContinuationInert ==
  [][\A k \in 1..MaxClicks :
       /\ rn.h[k].pc \notin {"none", "done"}
       /\ rn'.h[k].pc # rn.h[k].pc
       /\ rn.h[k].token # rn.sessionToken
       => [rn' EXCEPT !.h = rn.h] = rn]_vars

-----------------------------------------------------------------------------
(* Specifications *)

\* rn is the renderer after boot (renderer.js 389-402): post, previews, output and config
\* hold the number of the handler that wrote them (0: empty), h the click handlers
Init ==
  /\ InitCore /\ InitLauncher /\ InitCompletion /\ InitPure /\ InitToolCall
  /\ rn = [sessionToken |-> 0, requestSeq |-> 0, post |-> 0, previews |-> 0, output |-> 0,
           config |-> 0, status |-> "Idle", fetching |-> FALSE, generating |-> FALSE,
           currentFetchRequestId |-> 0, currentGenerateRequestId |-> 0,
           clearPc |-> "idle", clears |-> 0,
           h |-> [k \in 1..MaxClicks |-> [kind |-> "", token |-> 0, pc |-> "none"]]]

Spec == Init /\ [][Next]_vars

LauncherSpec == Init /\ [][LauncherNext]_vars

CompletionSpec == Init /\ [][CompletionNext]_vars

PureSpec == Init /\ [][PureNext]_vars

GenerateSpec == Init /\ [][GenerateNext]_vars

ToolCallSpec == Init /\ [][ToolCallNext]_vars

CacheSpec == Init /\ [][CacheNext]_vars

RendererSpec ==
  /\ Init
  /\ [][
        \/ \E k \in 1..MaxClicks, kind \in {"fetch", "generate"}, valid \in BOOLEAN :
              Click(k, kind, valid)
        \/ \E k \in 1..MaxClicks, res \in {"ok", "aborted", "error"} : Returned(k, res)
        \/ \E k \in 1..MaxClicks, ok \in BOOLEAN : FetchContinues(k, ok)
        \/ Clear
       ]_vars

\* every await of an attempt settles: fs.access, the socket of isTcpPortOpen (350 ms
\* timeout), isReady (withTimeout of 1250 ms) and sleep(250) (mcpLauncher.js 159-271)
LauncherFairSpec ==
  /\ LauncherSpec
  /\ \A r \in Ensures :
       WF_vars(\/ AccessOk(r) \/ AccessFail(r) \/ FirstProbe(r) \/ Probed(r)
               \/ \E throws \in BOOLEAN : PortChecked(r, throws)
               \/ \E expired \in BOOLEAN : Slept(r, expired))

====
